---------------------------- MODULE Spec2Model ----------------------------
(***************************************************************************)
(* Free page reporting core (mm/page_reporting.c): the per-zone reporting  *)
(* bitmaps, the enqueue hook on the free path, the reporting work item and *)
(* its bitmap scan, and enable/disable of a reporting configuration.       *)
(*                                                                         *)
(* The buddy allocator, page isolation, RCU and the workqueue are kernel   *)
(* services the file calls; they are modelled by their contracts.          *)
(***************************************************************************)
EXTENDS Integers, Sequences, FiniteSets, TLC

(* ------------------------------ bounds --------------------------------- *)
\* populated zones
NZones == 2
\* blocks of PAGE_REPORTING_MIN_ORDER pages per zone
NBlocks == 2
\* largest max_pages a backend configures
MaxPages == 2
\* allocation failures that leave an object behind are injected at most
\* this many times
MaxLeak == 1
\* calls of page_reporting_enable()/page_reporting_disable() in one run
MaxCalls == 3
\* frees of a block in one run
MaxFrees == 2
\* blocks per zone when a scan is followed over a whole bitmap
NScanBlocks == 3

\* PAGE_REPORTING_MIN_ORDER (pageblock_order), scaled down: orders are 0 and 1
PAGE_REPORTING_MIN_ORDER == 1
Orders == 0..PAGE_REPORTING_MIN_ORDER

Zones == 1..NZones
Blocks == 0..(NBlocks - 1)
Configs == {"cfgA", "cfgB"}
NULL == "NULL"

\* phconf->max_pages, set by the backend before page_reporting_enable()
max_pages(c) == IF c = "cfgA" THEN MaxPages ELSE 1

VARIABLES
  page_reporting_conf,   \* the published configuration, or NULL
  page_reporting_mutex,  \* TRUE while the mutex is locked
  phconf,                \* per configuration: sg pointer state, flags bit
  work,                  \* per configuration: reporting_work of the workqueue
  reporting_bitmap,      \* per zone: zone->reporting_bitmap is non-NULL
  rb,                    \* per zone: the zone_reporting_bitmap object
  blocks,                \* per zone and block: allocator state
  lc,                    \* the task calling enable/disable
  hook,                  \* per zone: the free path inside the zone lock
  wk,                    \* per configuration: locals of page_reporting_wq
  heap,                  \* live objects no pointer refers to any more
  hist,                  \* history of the run: the counters that bound it
                         \* and what the properties read
  hinting_cb,            \* mm/page_hinting.c, hinting_cb variant: bm_zone
                         \* and the locals of scan_hinting_bitmap()
  hinting_config,        \* page_hinting_config variant: free_area and the
                         \* locals of scan_zone_free_area()
  index_map,             \* one zone's bitmap geometry and a page handed to
                         \* bitmap_set_bit()
  aerator,               \* mm/aeration.c: a_dev_info, aerator_hwm, the key
  aerator_work           \* delayed-work aerator: a_dev_info, zone flags,
                         \* aerator_work

\* the state of mm/page_reporting.c
reporting == <<page_reporting_conf, page_reporting_mutex, phconf, work,
               reporting_bitmap, rb, blocks, lc, hook, wk, heap, hist>>

\* the state of the earlier variants of the feature, which are separate
\* programs
variants == <<hinting_cb, hinting_config, index_map, aerator, aerator_work>>

vars == <<page_reporting_conf, page_reporting_mutex, phconf, work,
          reporting_bitmap, rb, blocks, lc, hook, wk, heap, hist,
          hinting_cb, hinting_config, index_map, aerator, aerator_work>>

(* ------------------------------ objects -------------------------------- *)
\* a zone_reporting_bitmap that does not exist (never allocated, or freed)
NoRbitmap == [obj |-> FALSE, bitmap |-> FALSE, nbits |-> 0, bits |-> {},
              free_pages |-> 0]

IdleLc == [pc |-> "idle", cfg |-> NULL, z |-> 0, ret |-> "none",
           tmp |-> FALSE, op |-> "none", nclean |-> 0, incb |-> FALSE]

IdleHook == [pc |-> "idle", cfg |-> NULL, b |-> 0]

IdleWk == [pc |-> "idle", z |-> 0, setbit |-> 0, count |-> 0, sgl |-> <<>>,
           ends |-> {}, order |-> 0, tail |-> FALSE, stale |-> FALSE,
           nIso |-> 0,
           nRel |-> 0, snap |-> {}]

\* the variants are not part of a run of mm/page_reporting.c
VariantsOff ==
  /\ hinting_cb = [pc |-> "off"]
  /\ hinting_config = [pc |-> "off"]
  /\ index_map = [pc |-> "off"]
  /\ aerator = [pc |-> "off"]
  /\ aerator_work = [pc |-> "off"]

\* mm/page_reporting.c after boot, before any page_reporting_enable()
ReportingOff ==
  /\ page_reporting_conf = NULL
  /\ page_reporting_mutex = FALSE
  /\ phconf = [c \in Configs |-> [sg |-> "null", flags |-> FALSE]]
  /\ work = [c \in Configs |-> [pending |-> FALSE, nrun |-> 0]]
  /\ reporting_bitmap = [z \in Zones |-> FALSE]
  /\ rb = [z \in Zones |-> NoRbitmap]
  /\ blocks = [z \in Zones |-> [b \in Blocks |-> [st |-> "alloc", order |-> 0,
                                                  iso |-> FALSE]]]
  /\ lc = IdleLc
  /\ hook = [z \in Zones |-> IdleHook]
  /\ wk = [c \in Configs |-> IdleWk]
  /\ heap = [leaked |-> 0]
  /\ hist = [quiesced |-> [c \in Configs |-> FALSE],
             uaf |-> FALSE, waited |-> FALSE, dirty |-> FALSE,
             lowfree |-> FALSE, nullfree |-> FALSE, dup |-> {},
             scans |-> 0, latefree |-> FALSE,
             calls |-> 0, frees |-> 0]

Init ==
  /\ VariantsOff
  /\ ReportingOff

(* ------------------------------- RCU ----------------------------------- *)
\* synchronize_rcu() returns once every read-side section that could have
\* seen the old pointer has ended; the enqueue hook is the only reader that
\* holds rcu_read_lock().
synchronize_rcu == \A z \in Zones : hook[z].pc = "idle"

(* ------------------------- lifecycle: cleanup -------------------------- *)
\* the worker of c holds a pointer into zone z's zone_reporting_bitmap
WkHoldsRbitmap(c, z) ==
  /\ work[c].nrun > 0
  /\ wk[c].z = z
  /\ wk[c].pc \in {"find", "check", "order", "isolate", "test", "undo", "clear",
                   "dec",
                   "report", "return", "tail"}

\* the worker of c is using phconf->sg
WkHoldsSg(c) ==
  /\ work[c].nrun > 0
  /\ wk[c].pc \in {"find", "check", "order", "isolate", "test", "undo", "clear",
                   "dec",
                   "report", "return", "tail"}

\* kfree of zone z's objects: a worker still pointing at them is left with a
\* stale pointer
MarkStaleRbitmap(z) ==
  [c \in Configs |-> IF WkHoldsRbitmap(c, z)
                     THEN [wk[c] EXCEPT !.stale = TRUE] ELSE wk[c]]

MarkStaleSg(cfg) ==
  [c \in Configs |-> IF c = cfg /\ WkHoldsSg(c)
                     THEN [wk[c] EXCEPT !.stale = TRUE] ELSE wk[c]]

\* where zone_reporting_cleanup() goes after zone z
CleanupNext(z) ==
  IF z < NZones THEN [lc EXCEPT !.pc = "cl_zone", !.z = z + 1]
  ELSE IF lc.op = "enable" THEN [lc EXCEPT !.pc = "en_free_sg", !.z = 0]
  ELSE [lc EXCEPT !.pc = "di_unlock", !.z = 0]

\* zone_reporting_cleanup(), one zone: read the pointer, skip the zone if it
\* is NULL, otherwise unpublish it
zone_reporting_cleanup_unpublish ==
  /\ lc.pc = "cl_zone"
  /\ IF ~reporting_bitmap[lc.z]
     THEN /\ lc' = CleanupNext(lc.z)
          /\ UNCHANGED reporting_bitmap
     ELSE /\ reporting_bitmap' = [reporting_bitmap EXCEPT ![lc.z] = FALSE]
          /\ lc' = [lc EXCEPT !.pc = "cl_free"]
  /\ UNCHANGED <<page_reporting_conf, page_reporting_mutex, phconf, work, rb,
                 blocks, hook, wk, heap, hist>>
  /\ UNCHANGED variants

\* zone_reporting_cleanup(), one zone: after synchronize_rcu() free the
\* bitmap, reset free_pages and kfree the object
zone_reporting_cleanup_free ==
  /\ lc.pc = "cl_free"
  /\ synchronize_rcu
  /\ rb' = [rb EXCEPT ![lc.z] = NoRbitmap]
  /\ wk' = MarkStaleRbitmap(lc.z)
  /\ lc' = [CleanupNext(lc.z) EXCEPT !.nclean = @ + 1]
  /\ hist' = [hist EXCEPT !.dirty = @ \/ rb[lc.z].bits /= {}]
  /\ UNCHANGED <<page_reporting_conf, page_reporting_mutex, phconf, work,
                 reporting_bitmap, blocks, hook, heap>>
  /\ UNCHANGED variants

(* ------------------------- lifecycle: enable --------------------------- *)
\* zone_bitmap_alloc(): bitmap_size = (pages >> PAGE_REPORTING_MIN_ORDER) + 1
\* for a zone of NBlocks blocks
BitmapSize == NBlocks + 1

\* page_reporting_enable(): mutex_lock()
page_reporting_enable_lock(c) ==
  /\ lc.pc = "idle"
  /\ ~page_reporting_mutex
  /\ page_reporting_mutex' = TRUE
  /\ lc' = [IdleLc EXCEPT !.pc = "en_check", !.cfg = c, !.op = "enable",
                          !.ret = "0"]
  /\ hist.calls < MaxCalls
  /\ hist' = [hist EXCEPT !.calls = @ + 1]
  /\ UNCHANGED <<page_reporting_conf, phconf, work, reporting_bitmap, rb,
                 blocks, hook, wk, heap>>
  /\ UNCHANGED variants

\* the check left out
AlreadyInUse_never == FALSE

\* the check that someone is already using page reporting
AlreadyInUse == page_reporting_conf /= NULL

\* page_reporting_enable(): -EBUSY when a configuration is published
page_reporting_enable_check ==
  /\ lc.pc = "en_check"
  /\ IF AlreadyInUse
     THEN lc' = [lc EXCEPT !.pc = "en_out", !.ret = "EBUSY"]
     ELSE lc' = [lc EXCEPT !.pc = "en_sg"]
  /\ UNCHANGED <<page_reporting_conf, page_reporting_mutex, phconf, work,
                 reporting_bitmap, rb, blocks, hook, wk, heap, hist>>
  /\ UNCHANGED variants

\* page_reporting_enable(): phconf->sg = kcalloc(...), which may fail
page_reporting_enable_sg ==
  /\ lc.pc = "en_sg"
  /\ \E ok \in BOOLEAN :
       IF ok
       THEN /\ phconf' = [phconf EXCEPT ![lc.cfg].sg = "live"]
            /\ lc' = [lc EXCEPT !.pc = "zi_kmalloc", !.z = 1]
       ELSE /\ phconf' = [phconf EXCEPT ![lc.cfg].sg = "null"]
            /\ lc' = [lc EXCEPT !.pc = "en_out", !.ret = "ENOMEM"]
  /\ UNCHANGED <<page_reporting_conf, page_reporting_mutex, work,
                 reporting_bitmap, rb, blocks, hook, wk, heap, hist>>
  /\ UNCHANGED variants

\* -ENOMEM is returned without the call of zone_reporting_cleanup()
InitFailure_nocleanup(l) == [l EXCEPT !.pc = "en_free_sg", !.z = 0,
                                      !.ret = "ENOMEM", !.tmp = FALSE]

\* zone_reporting_init(): a failed allocation calls zone_reporting_cleanup()
\* and returns -ENOMEM
InitFailure(l) == [l EXCEPT !.pc = "cl_zone", !.z = 1, !.ret = "ENOMEM",
                            !.tmp = FALSE]

\* zone_reporting_init(), one zone: kmalloc of the zone_reporting_bitmap and
\* the initialisation of its fields; on failure zone_reporting_cleanup()
zone_reporting_init_kmalloc ==
  /\ lc.pc = "zi_kmalloc"
  /\ \E ok \in BOOLEAN :
       IF ok
       THEN lc' = [lc EXCEPT !.pc = "zi_bitmap", !.tmp = TRUE]
       ELSE lc' = InitFailure(lc)
  /\ UNCHANGED <<page_reporting_conf, page_reporting_mutex, phconf, work,
                 reporting_bitmap, rb, blocks, hook, wk, heap, hist>>
  /\ UNCHANGED variants

\* zone_reporting_init(), one zone: zone_bitmap_alloc(), then the pointer is
\* assigned to the zone; on failure zone_reporting_cleanup() runs and the
\* object of this zone, which no zone points to yet, is not freed by it
zone_reporting_init_bitmap ==
  /\ lc.pc = "zi_bitmap"
  /\ \E ok \in BOOLEAN :
       IF ok
       THEN /\ rb' = [rb EXCEPT ![lc.z] = [obj |-> TRUE, bitmap |-> TRUE,
                                           nbits |-> BitmapSize, bits |-> {},
                                           free_pages |-> 0]]
            /\ reporting_bitmap' = [reporting_bitmap EXCEPT ![lc.z] = TRUE]
            /\ lc' = IF lc.z < NZones
                     THEN [lc EXCEPT !.pc = "zi_kmalloc", !.z = lc.z + 1,
                                     !.tmp = FALSE]
                     ELSE [lc EXCEPT !.pc = "en_publish", !.z = 0,
                                     !.tmp = FALSE]
            /\ UNCHANGED heap
       ELSE /\ heap.leaked < MaxLeak
            /\ heap' = [heap EXCEPT !.leaked = heap.leaked + 1]
            /\ lc' = InitFailure(lc)
            /\ UNCHANGED <<rb, reporting_bitmap>>
  /\ UNCHANGED <<page_reporting_conf, page_reporting_mutex, phconf, work,
                 blocks, hook, wk, hist>>
  /\ UNCHANGED variants

\* page_reporting_enable(): zone_reporting_init() failed, kfree(phconf->sg);
\* the pointer is left as it was
page_reporting_enable_free_sg ==
  /\ lc.pc = "en_free_sg"
  /\ phconf' = [phconf EXCEPT ![lc.cfg].sg = "dangling"]
  /\ wk' = MarkStaleSg(lc.cfg)
  /\ lc' = [lc EXCEPT !.pc = "en_out"]
  /\ UNCHANGED <<page_reporting_conf, page_reporting_mutex, work,
                 reporting_bitmap, rb, blocks, hook, heap, hist>>
  /\ UNCHANGED variants

\* page_reporting_enable(): INIT_WORK() and publication of the configuration
page_reporting_enable_publish ==
  /\ lc.pc = "en_publish"
  /\ work' = [work EXCEPT ![lc.cfg].pending = FALSE]
  /\ page_reporting_conf' = lc.cfg
  /\ hist' = [hist EXCEPT !.quiesced[lc.cfg] = FALSE]
  /\ lc' = [lc EXCEPT !.pc = "en_out"]
  /\ UNCHANGED <<page_reporting_mutex, phconf, reporting_bitmap, rb, blocks,
                 hook, wk, heap>>
  /\ UNCHANGED variants

\* page_reporting_enable(): out: mutex_unlock(); return ret
page_reporting_enable_out ==
  /\ lc.pc = "en_out"
  /\ page_reporting_mutex' = FALSE
  /\ lc' = IdleLc
  /\ UNCHANGED <<page_reporting_conf, phconf, work, reporting_bitmap, rb,
                 blocks, hook, wk, heap, hist>>
  /\ UNCHANGED variants

(* ------------------------- lifecycle: disable -------------------------- *)
\* page_reporting_disable(): mutex_lock()
page_reporting_disable_lock(c) ==
  /\ lc.pc = "idle"
  /\ ~page_reporting_mutex
  /\ page_reporting_mutex' = TRUE
  /\ lc' = [IdleLc EXCEPT !.pc = "di_check", !.cfg = c, !.op = "disable",
                          !.incb = /\ page_reporting_conf = c
                                   /\ work[c].nrun > 0
                                   /\ wk[c].pc = "report"]
  /\ hist.calls < MaxCalls
  /\ hist' = [hist EXCEPT !.calls = @ + 1]
  /\ UNCHANGED <<page_reporting_conf, phconf, work, reporting_bitmap, rb,
                 blocks, hook, wk, heap>>
  /\ UNCHANGED variants

\* the pointer is not reset
ConfAfterDisable_kept == page_reporting_conf

\* RCU_INIT_POINTER(page_reporting_conf, NULL)
ConfAfterDisable == NULL

\* page_reporting_disable(): a configuration that is not the published one
\* returns at once, with the mutex still locked; the published one is
\* unpublished
page_reporting_disable_check ==
  /\ lc.pc = "di_check"
  /\ IF page_reporting_conf /= lc.cfg
     THEN /\ lc' = IdleLc
          /\ UNCHANGED page_reporting_conf
     ELSE /\ page_reporting_conf' = ConfAfterDisable
          /\ lc' = [lc EXCEPT !.pc = "di_sync"]
  /\ UNCHANGED <<page_reporting_mutex, phconf, work, reporting_bitmap, rb,
                 blocks, hook, wk, heap, hist>>
  /\ UNCHANGED variants

\* page_reporting_disable(): synchronize_rcu(), then cancel_work_sync()
\* takes the work item off the queue if it is pending
page_reporting_disable_cancel ==
  /\ lc.pc = "di_sync"
  /\ synchronize_rcu
  /\ work' = [work EXCEPT ![lc.cfg].pending = FALSE]
  /\ lc' = [lc EXCEPT !.pc = "di_flush"]
  /\ hist' = [hist EXCEPT !.waited = \/ @
                                     \/ work[lc.cfg].pending
                                     \/ work[lc.cfg].nrun > 0]
  /\ UNCHANGED <<page_reporting_conf, page_reporting_mutex, phconf,
                 reporting_bitmap, rb, blocks, hook, wk, heap>>
  /\ UNCHANGED variants

\* cancel_work() in place of cancel_work_sync(): no wait for a running work
cancel_work_nowait(c) == TRUE

\* cancel_work_sync() returns only when the work function is not running
cancel_work_sync_flushed(c) == work[c].nrun = 0

\* zone_reporting_cleanup() is not called
DisableAfterFreeSg_nocleanup(l) == [l EXCEPT !.pc = "di_unlock", !.z = 0]

\* page_reporting_disable(): zone_reporting_cleanup() follows the kfree
DisableAfterFreeSg(l) == [l EXCEPT !.pc = "cl_zone", !.z = 1]

\* page_reporting_disable(): cancel_work_sync() has returned; kfree of the
\* scatterlist, phconf->sg = NULL
page_reporting_disable_free_sg ==
  /\ lc.pc = "di_flush"
  /\ cancel_work_sync_flushed(lc.cfg)
  /\ phconf' = [phconf EXCEPT ![lc.cfg].sg = "null"]
  /\ wk' = MarkStaleSg(lc.cfg)
  /\ lc' = DisableAfterFreeSg(lc)
  /\ UNCHANGED <<page_reporting_conf, page_reporting_mutex, work,
                 reporting_bitmap, rb, blocks, hook, heap, hist>>
  /\ UNCHANGED variants

\* page_reporting_disable(): mutex_unlock() after zone_reporting_cleanup()
page_reporting_disable_unlock ==
  /\ lc.pc = "di_unlock"
  /\ page_reporting_mutex' = FALSE
  /\ hist' = [hist EXCEPT !.quiesced[lc.cfg] = TRUE]
  /\ lc' = IdleLc
  /\ UNCHANGED <<page_reporting_conf, phconf, work, reporting_bitmap, rb,
                 blocks, hook, wk, heap>>
  /\ UNCHANGED variants

Lifecycle ==
  \/ \E c \in Configs : page_reporting_enable_lock(c)
  \/ page_reporting_enable_check
  \/ page_reporting_enable_sg
  \/ zone_reporting_init_kmalloc
  \/ zone_reporting_init_bitmap
  \/ page_reporting_enable_free_sg
  \/ page_reporting_enable_publish
  \/ page_reporting_enable_out
  \/ \E c \in Configs : page_reporting_disable_lock(c)
  \/ page_reporting_disable_check
  \/ page_reporting_disable_cancel
  \/ page_reporting_disable_free_sg
  \/ page_reporting_disable_unlock
  \/ zone_reporting_cleanup_unpublish
  \/ zone_reporting_cleanup_free

(* --------------------------- allocator hooks --------------------------- *)
\* bitmap_set_bit(): bitnr = (pfn - base_pfn) >> PAGE_REPORTING_MIN_ORDER of
\* the head page of block b
BitNr(b) == b

\* the order filter left out
BelowMinOrder_never(order) == FALSE

\* page_reporting_enqueue(): if (order < PAGE_REPORTING_MIN_ORDER) return
BelowMinOrder(order) == order < PAGE_REPORTING_MIN_ORDER

\* the NULL test left out
EnqueueSeesNoConf_never == FALSE

\* __page_reporting_enqueue(): if (!phconf) goto out
EnqueueSeesNoConf == page_reporting_conf = NULL

\* __free_one_page() of block b at the given order, inside zone->lock, then
\* page_reporting_enqueue(): orders below PAGE_REPORTING_MIN_ORDER return,
\* otherwise __page_reporting_enqueue() takes rcu_read_lock() and reads the
\* published configuration; NULL goes to out
page_reporting_enqueue(z, b, order) ==
  /\ hook[z].pc = "idle"
  /\ blocks[z][b].st = "alloc"
  /\ hist.frees < MaxFrees
  /\ hist' = [hist EXCEPT
                !.frees = @ + 1,
                !.latefree = @ \/ hist.scans > 0,
                !.lowfree = \/ @
                            \/ /\ order < PAGE_REPORTING_MIN_ORDER
                               /\ page_reporting_conf /= NULL
                               /\ reporting_bitmap[z],
                !.nullfree = \/ @
                             \/ /\ order >= PAGE_REPORTING_MIN_ORDER
                                /\ page_reporting_conf = NULL
                                /\ reporting_bitmap[z]]
  /\ blocks' = [blocks EXCEPT ![z][b].st = "free", ![z][b].order = order]
  /\ IF BelowMinOrder(order) \/ EnqueueSeesNoConf
     THEN UNCHANGED hook
     ELSE hook' = [hook EXCEPT ![z] = [pc |-> "e_rbitmap",
                                       cfg |-> page_reporting_conf, b |-> b]]
  /\ UNCHANGED <<page_reporting_conf, page_reporting_mutex, phconf, work,
                 reporting_bitmap, rb, lc, wk, heap>>
  /\ UNCHANGED variants

\* the result of test_and_set_bit() is ignored
BitNewlySet_always(z, nr) == TRUE

\* bitmap_set_bit(): !test_and_set_bit(bitnr, rbitmap->bitmap)
BitNewlySet(z, nr) == nr \notin rb[z].bits

\* __page_reporting_enqueue(): the zone's rbitmap pointer is read, NULL goes
\* to out; bitmap_set_bit() does test_and_set_bit() on a valid bit
enqueue_bitmap_set_bit(z) ==
  /\ hook[z].pc = "e_rbitmap"
  /\ IF ~reporting_bitmap[z]
     THEN /\ hook' = [hook EXCEPT ![z] = IdleHook]
          /\ UNCHANGED <<rb, hist>>
     ELSE /\ hist' = [hist EXCEPT
                        !.dup = IF BitNr(hook[z].b) \in rb[z].bits
                                THEN @ \cup {<<z, hook[z].b>>} ELSE @]
          /\ IF /\ rb[z].bitmap
                /\ BitNr(hook[z].b) < rb[z].nbits
                /\ BitNewlySet(z, BitNr(hook[z].b))
             THEN /\ rb' = [rb EXCEPT ![z].bits = @ \cup {BitNr(hook[z].b)}]
                  /\ hook' = [hook EXCEPT ![z].pc = "e_inc"]
             ELSE /\ hook' = [hook EXCEPT ![z].pc = "e_thresh"]
                  /\ UNCHANGED rb
  /\ UNCHANGED <<page_reporting_conf, page_reporting_mutex, phconf, work,
                 reporting_bitmap, blocks, lc, wk, heap>>
  /\ UNCHANGED variants

\* bitmap_set_bit(): atomic_inc(&rbitmap->free_pages) for a newly set bit
enqueue_atomic_inc(z) ==
  /\ hook[z].pc = "e_inc"
  /\ rb' = [rb EXCEPT ![z].free_pages = @ + 1]
  /\ hook' = [hook EXCEPT ![z].pc = "e_thresh"]
  /\ UNCHANGED <<page_reporting_conf, page_reporting_mutex, phconf, work,
                 reporting_bitmap, blocks, lc, wk, heap, hist>>
  /\ UNCHANGED variants

\* the test of PAGE_REPORTING_ACTIVE left out
EnqueueSkipsJob_noflag(z, c) == rb[z].free_pages < max_pages(c)

\* __page_reporting_enqueue(): no job is queued when the zone has fewer than
\* max_pages free pages or PAGE_REPORTING_ACTIVE is set
EnqueueSkipsJob(z, c) ==
  \/ rb[z].free_pages < max_pages(c)
  \/ phconf[c].flags

enqueue_threshold(z) ==
  /\ hook[z].pc = "e_thresh"
  /\ IF EnqueueSkipsJob(z, hook[z].cfg)
     THEN hook' = [hook EXCEPT ![z] = IdleHook]
     ELSE hook' = [hook EXCEPT ![z].pc = "e_setflag"]
  /\ UNCHANGED <<page_reporting_conf, page_reporting_mutex, phconf, work,
                 reporting_bitmap, rb, blocks, lc, wk, heap, hist>>
  /\ UNCHANGED variants

\* __page_reporting_enqueue(): __set_bit(PAGE_REPORTING_ACTIVE, ...)
enqueue_set_active(z) ==
  /\ hook[z].pc = "e_setflag"
  /\ phconf' = [phconf EXCEPT ![hook[z].cfg].flags = TRUE]
  /\ hook' = [hook EXCEPT ![z].pc = "e_sched"]
  /\ UNCHANGED <<page_reporting_conf, page_reporting_mutex, work,
                 reporting_bitmap, rb, blocks, lc, wk, heap, hist>>
  /\ UNCHANGED variants

\* schedule_work(): queues the work item unless it is already pending
schedule_work(c) == [work EXCEPT ![c].pending = TRUE]

\* __page_reporting_enqueue(): schedule_work(), rcu_read_unlock(); the free
\* path then drops zone->lock
enqueue_schedule_work(z) ==
  /\ hook[z].pc = "e_sched"
  /\ work' = schedule_work(hook[z].cfg)
  /\ hook' = [hook EXCEPT ![z] = IdleHook]
  /\ UNCHANGED <<page_reporting_conf, page_reporting_mutex, phconf,
                 reporting_bitmap, rb, blocks, lc, wk, heap, hist>>
  /\ UNCHANGED variants

\* the guard returns for every page
DequeueBelowMinOrder_always(z, b) == TRUE

\* page_reporting_dequeue(): if (page_private(buddy_page) < PAGE_REPORTING_MIN_ORDER)
\* return, where buddy_page is the head of the free block that holds the page
DequeueBelowMinOrder(z, b) == blocks[z][b].order < PAGE_REPORTING_MIN_ORDER

\* __page_reporting_dequeue(): with a configuration active, the bit of the
\* block is cleared if it is set
DequeueClearsBit(z, b) ==
  /\ page_reporting_conf /= NULL
  /\ reporting_bitmap[z]
  /\ BitNr(b) \in rb[z].bits

\* the allocate path takes block b off the free list inside zone->lock; a
\* block of an isolated pageblock is never handed out. page_reporting_dequeue()
\* returns for orders below PAGE_REPORTING_MIN_ORDER, __page_reporting_dequeue()
\* clears the block's bit and decrements free_pages if the bit was set
page_reporting_dequeue(z, b) ==
  /\ hook[z].pc = "idle"
  /\ blocks[z][b].st = "free"
  /\ ~blocks[z][b].iso
  /\ blocks' = [blocks EXCEPT ![z][b].st = "alloc", ![z][b].order = 0]
  /\ IF ~DequeueBelowMinOrder(z, b) /\ DequeueClearsBit(z, b)
     THEN rb' = [rb EXCEPT ![z].bits = @ \ {BitNr(b)},
                           ![z].free_pages = @ - 1]
     ELSE UNCHANGED rb
  /\ UNCHANGED <<page_reporting_conf, page_reporting_mutex, phconf, work,
                 reporting_bitmap, lc, hook, wk, heap, hist>>
  /\ UNCHANGED variants

Hooks ==
  \/ \E z \in Zones, b \in Blocks, o \in Orders : page_reporting_enqueue(z, b, o)
  \/ \E z \in Zones : enqueue_bitmap_set_bit(z)
  \/ \E z \in Zones : enqueue_atomic_inc(z)
  \/ \E z \in Zones : enqueue_threshold(z)
  \/ \E z \in Zones : enqueue_set_active(z)
  \/ \E z \in Zones : enqueue_schedule_work(z)
  \/ \E z \in Zones, b \in Blocks : page_reporting_dequeue(z, b)

(* ------------------------- reporting work item ------------------------- *)
\* a workqueue that runs a requeued item beside the running one
WqMayStart_reentrant(c) == TRUE

\* the workqueue never runs a work item that is still running
WqMayStart(c) == work[c].nrun = 0

\* the workqueue takes the pending work item and calls page_reporting_wq()
page_reporting_wq_start(c) ==
  /\ work[c].pending
  /\ WqMayStart(c)
  /\ work' = [work EXCEPT ![c].pending = FALSE, ![c].nrun = @ + 1]
  /\ wk' = [wk EXCEPT ![c] = [IdleWk EXCEPT !.pc = "zone", !.z = 1]]
  /\ hist' = [hist EXCEPT
                !.scans = @ + 1,
                !.latefree = @ \/ \E z \in Zones : hook[z].pc /= "idle"]
  /\ UNCHANGED <<page_reporting_conf, page_reporting_mutex, phconf,
                 reporting_bitmap, rb, blocks, lc, hook, heap>>
  /\ UNCHANGED variants

\* a read or write through a pointer whose object was freed, or through NULL
BadAccess(bad) == IF bad THEN [hist EXCEPT !.uaf = TRUE] ELSE hist

\* for_each_populated_zone(): the next zone, or the end of the loop
NextZone(w) ==
  IF w.z < NZones THEN [w EXCEPT !.pc = "zone", !.z = w.z + 1, !.snap = {}]
  ELSE [w EXCEPT !.pc = "done", !.snap = {}]

\* the threshold replaced by "anything pending"
ZoneNeedsScan_any(c, z) == reporting_bitmap[z] /\ rb[z].free_pages >= 1

\* page_reporting_wq(): the zone is scanned when its free_pages reaches
\* max_pages
ZoneNeedsScan(c, z) == reporting_bitmap[z] /\ rb[z].free_pages >= max_pages(c)

\* sg_init_table(): entry max_pages is marked as the end of the list
sg_init_table(c) == {max_pages(c)}

\* page_reporting_wq(), one zone: read the rbitmap pointer and free_pages;
\* scan_zone_bitmap() starts with sg_init_table() and count = 0; snap keeps
\* the bits that were set when the scan of the zone started
page_reporting_wq_zone(c) ==
  /\ work[c].nrun > 0
  /\ wk[c].pc = "zone"
  /\ IF ZoneNeedsScan(c, wk[c].z)
     THEN /\ wk' = [wk EXCEPT ![c].pc = "find", ![c].setbit = 0,
                              ![c].count = 0, ![c].sgl = <<>>,
                              ![c].ends = sg_init_table(c),
                              ![c].tail = FALSE, ![c].nIso = 0,
                              ![c].nRel = 0,
                              ![c].snap = rb[wk[c].z].bits]
          /\ hist' = BadAccess(phconf[c].sg /= "live")
     ELSE /\ wk' = [wk EXCEPT ![c] = NextZone(wk[c])]
          /\ hist' = BadAccess(~reporting_bitmap[wk[c].z])
  /\ UNCHANGED <<page_reporting_conf, page_reporting_mutex, phconf, work,
                 reporting_bitmap, rb, blocks, lc, hook, heap>>
  /\ UNCHANGED variants

Min(S) == CHOOSE x \in S : \A y \in S : x <= y

\* the search goes on at the bit it has just found
NextBit_same(bit) == bit

\* for_each_set_bit(): the next search starts behind the bit just found,
\* find_next_bit(addr, size, bit + 1)
NextBit(bit) == bit + 1

\* the search starts over at bit 0 every time
SetBitsFrom_restart(z, from) == {i \in rb[z].bits : i < rb[z].nbits}

\* for_each_set_bit(): the set bits from position `from` on
SetBitsFrom(z, from) == {i \in rb[z].bits : i >= from /\ i < rb[z].nbits}

\* the worker's rbitmap pointer no longer points at a live object
RbitmapGone(c) == wk[c].stale \/ ~rb[wk[c].z].obj \/ ~rb[wk[c].z].bitmap

\* scan_zone_bitmap(): find_next_bit(); the loop ends when no bit is left
scan_zone_bitmap_find(c) ==
  /\ work[c].nrun > 0
  /\ wk[c].pc = "find"
  /\ IF SetBitsFrom(wk[c].z, wk[c].setbit) = {}
     THEN wk' = [wk EXCEPT ![c].pc = "tail"]
     ELSE wk' = [wk EXCEPT ![c].pc = "check",
                           ![c].setbit = Min(SetBitsFrom(wk[c].z, wk[c].setbit))]
  /\ hist' = BadAccess(RbitmapGone(c))
  /\ UNCHANGED <<page_reporting_conf, page_reporting_mutex, phconf, work,
                 reporting_bitmap, rb, blocks, lc, hook, heap>>
  /\ UNCHANGED variants

\* the test of the order left out: PageBuddy(page) alone
StillFree_anyorder(z, b) == blocks[z][b].st = "free"

\* the page is still free at a reportable order
StillFree(z, b) ==
  /\ blocks[z][b].st = "free"
  /\ blocks[z][b].order >= PAGE_REPORTING_MIN_ORDER

\* scan_zone_bitmap(): PageBuddy(page) && page_private(page) >= MIN_ORDER,
\* read without zone->lock
scan_zone_bitmap_check(c) ==
  /\ work[c].nrun > 0
  /\ wk[c].pc = "check"
  /\ IF StillFree(wk[c].z, wk[c].setbit)
     THEN wk' = [wk EXCEPT ![c].pc = "order"]
     ELSE wk' = [wk EXCEPT ![c].pc = "clear"]
  /\ UNCHANGED <<page_reporting_conf, page_reporting_mutex, phconf, work,
                 reporting_bitmap, rb, blocks, lc, hook, heap, hist>>
  /\ UNCHANGED variants

\* process_free_page(): order = page_private(page), read without zone->lock
process_free_page_order(c) ==
  /\ work[c].nrun > 0
  /\ wk[c].pc = "order"
  /\ wk' = [wk EXCEPT ![c].pc = "isolate",
                      ![c].order = blocks[wk[c].z][wk[c].setbit].order]
  /\ UNCHANGED <<page_reporting_conf, page_reporting_mutex, phconf, work,
                 reporting_bitmap, rb, blocks, lc, hook, heap, hist>>
  /\ UNCHANGED variants

\* start_isolate_page_range() takes zone->lock: it fails on a pageblock that
\* is already isolated, succeeds on a free block, and may do either on a
\* block that holds allocated pages
start_isolate_page_range(z, b, ok) ==
  /\ hook[z].pc = "idle"
  /\ ok => ~blocks[z][b].iso
  /\ ~ok => blocks[z][b].iso \/ blocks[z][b].st = "alloc"
              \/ blocks[z][b].order < PAGE_REPORTING_MIN_ORDER

\* process_free_page(): start_isolate_page_range(start, end, mt, 0)
process_free_page_isolate(c) ==
  /\ work[c].nrun > 0
  /\ wk[c].pc = "isolate"
  /\ \E ok \in BOOLEAN :
       /\ start_isolate_page_range(wk[c].z, wk[c].setbit, ok)
       /\ IF ok
          THEN /\ blocks' = [blocks EXCEPT ![wk[c].z][wk[c].setbit].iso = TRUE]
               /\ wk' = [wk EXCEPT ![c].pc = "test"]
          ELSE /\ wk' = [wk EXCEPT ![c].pc = "clear"]
               /\ UNCHANGED blocks
  /\ UNCHANGED <<page_reporting_conf, page_reporting_mutex, phconf, work,
                 reporting_bitmap, rb, lc, hook, heap, hist>>
  /\ UNCHANGED variants

\* test_pages_isolated() takes zone->lock: 0 if every page of the range
\* [start, start + (1 << order)) is free, -EBUSY otherwise
test_pages_isolated(z, b, order) ==
  IF blocks[z][b].st = "free" /\ blocks[z][b].order >= order
  THEN "0" ELSE "EBUSY"

\* the result of test_pages_isolated() is ignored
RangeReportable_unchecked(ret) == TRUE

\* the comparison inverted: == -EBUSY
RangeReportable_inverted(ret) == ret = "EBUSY"

\* process_free_page(): the range is added to the scatterlist unless
\* test_pages_isolated() returned -EBUSY
RangeReportable(ret) == ret /= "EBUSY"

\* every entry gets the length of a block of PAGE_REPORTING_MIN_ORDER
sg_length_minorder(order) == 2 ^ PAGE_REPORTING_MIN_ORDER

\* process_free_page(): the length given to sg_set_page(), PAGE_SIZE << order,
\* counted in pages
sg_length(order) == 2 ^ order

\* process_free_page(): test_pages_isolated(), then sg_set_page() of
\* sg[count++] with length PAGE_SIZE << order
process_free_page_test(c) ==
  /\ work[c].nrun > 0
  /\ wk[c].pc = "test"
  /\ hook[wk[c].z].pc = "idle"
  /\ IF RangeReportable(test_pages_isolated(wk[c].z, wk[c].setbit,
                                            wk[c].order))
     THEN /\ wk' = [wk EXCEPT
                      ![c].pc = "clear",
                      ![c].count = @ + 1,
                      ![c].nIso = @ + 1,
                      ![c].sgl = Append(@, [z |-> wk[c].z, b |-> wk[c].setbit,
                                             order |-> wk[c].order,
                                             length |-> sg_length(wk[c].order)])]
          /\ hist' = BadAccess(phconf[c].sg /= "live" \/ wk[c].stale)
     ELSE /\ wk' = [wk EXCEPT ![c].pc = "undo"]
          /\ UNCHANGED hist
  /\ UNCHANGED <<page_reporting_conf, page_reporting_mutex, phconf, work,
                 reporting_bitmap, rb, blocks, lc, hook, heap>>
  /\ UNCHANGED variants

\* the isolation is not undone
undo_isolate_page_range_skipped(blk) == blk

\* undo_isolate_page_range(start, end, mt): the pageblock gets the
\* migratetype it had before start_isolate_page_range()
undo_isolate_page_range(blk) == [blk EXCEPT !.iso = FALSE]

\* process_free_page(): undo_isolate_page_range(start, end, mt)
process_free_page_undo(c) ==
  /\ work[c].nrun > 0
  /\ wk[c].pc = "undo"
  /\ hook[wk[c].z].pc = "idle"
  /\ blocks' = [blocks EXCEPT ![wk[c].z][wk[c].setbit] =
                                undo_isolate_page_range(@)]
  /\ wk' = [wk EXCEPT ![c].pc = "clear"]
  /\ UNCHANGED <<page_reporting_conf, page_reporting_mutex, phconf, work,
                 reporting_bitmap, rb, lc, hook, heap, hist>>
  /\ UNCHANGED variants

\* scan_zone_bitmap(): clear_bit(setbit, rbitmap->bitmap)
scan_zone_bitmap_clear_bit(c) ==
  /\ work[c].nrun > 0
  /\ wk[c].pc = "clear"
  /\ rb' = [rb EXCEPT ![wk[c].z].bits = @ \ {wk[c].setbit}]
  /\ wk' = [wk EXCEPT ![c].pc = "dec"]
  /\ hist' = BadAccess(RbitmapGone(c))
  /\ UNCHANGED <<page_reporting_conf, page_reporting_mutex, phconf, work,
                 reporting_bitmap, blocks, lc, hook, heap>>
  /\ UNCHANGED variants

\* the comparison off by one: the batch is reported once count exceeds
\* max_pages
BatchFull_late(c) == wk[c].count > max_pages(c)

\* scan_zone_bitmap(): the batch is reported once count reaches max_pages
BatchFull(c) == wk[c].count >= max_pages(c)

\* scan_zone_bitmap(): atomic_dec(&rbitmap->free_pages), then the test of
\* count against max_pages; the iteration goes on behind setbit
scan_zone_bitmap_atomic_dec(c) ==
  /\ work[c].nrun > 0
  /\ wk[c].pc = "dec"
  /\ rb' = [rb EXCEPT ![wk[c].z].free_pages = @ - 1]
  /\ IF BatchFull(c)
     THEN wk' = [wk EXCEPT ![c].pc = "report"]
     ELSE wk' = [wk EXCEPT ![c].pc = "find", ![c].setbit = NextBit(@)]
  /\ hist' = BadAccess(RbitmapGone(c))
  /\ UNCHANGED <<page_reporting_conf, page_reporting_mutex, phconf, work,
                 reporting_bitmap, blocks, lc, hook, heap>>
  /\ UNCHANGED variants

\* scan_zone_bitmap(): phconf->report(phconf, count) is running; the step
\* is its return
scan_zone_bitmap_report(c) ==
  /\ work[c].nrun > 0
  /\ wk[c].pc = "report"
  /\ wk' = [wk EXCEPT ![c].pc = "return"]
  /\ UNCHANGED <<page_reporting_conf, page_reporting_mutex, phconf, work,
                 reporting_bitmap, rb, blocks, lc, hook, heap, hist>>
  /\ UNCHANGED variants

\* the loop condition inverted: only the first entry is returned
ReturnedEntries_first(w) == {1}

\* return_isolated_page(): do { ... } while (!sg_is_last(sg++)) walks the
\* entries up to the first one marked as the end
ReturnedEntries(w) == 1..Min(w.ends)

\* __return_isolated_page(): the block goes back to the free list of its
\* pageblock's migratetype
ReturnIsolated(z, idx, w) ==
  [b \in DOMAIN blocks[z] |->
     IF \E i \in idx : i <= Len(w.sgl) /\ w.sgl[i].b = b
     THEN [blocks[z][b] EXCEPT !.iso = FALSE]
     ELSE blocks[z][b]]

\* the release goes through the free path with its hook: every returned
\* block is marked again
BitmapAfterRelease_remarked(z, idx, w) ==
  [rb[z] EXCEPT
     !.bits = @ \cup {BitNr(w.sgl[i].b) : i \in {j \in idx : j <= Len(w.sgl)}},
     !.free_pages = @ + Cardinality({j \in idx : j <= Len(w.sgl)})]

\* __return_isolated_page(): the release does not call the enqueue hook, the
\* zone's bitmap and free_pages stay as they are
BitmapAfterRelease(z, idx, w) == rb[z]

\* the batch is not reset after it was returned
BatchAfterReturn_kept(w) == w

\* scan_zone_bitmap(): count = 0 after a reported batch (line 175); after the
\* batch behind the loop the function returns and count is gone
BatchAfterReturn(w) == [w EXCEPT !.sgl = <<>>, !.count = 0]

\* scan_zone_bitmap(): return_isolated_page(); after a full batch
\* sg_init_table() and count = 0, after the last one the scan is over
scan_zone_bitmap_return(c) ==
  /\ work[c].nrun > 0
  /\ wk[c].pc = "return"
  /\ blocks' = [blocks EXCEPT
                  ![wk[c].z] = ReturnIsolated(wk[c].z, ReturnedEntries(wk[c]),
                                              wk[c])]
  /\ LET n == Cardinality({i \in ReturnedEntries(wk[c]) : i <= Len(wk[c].sgl)})
         w == BatchAfterReturn([wk[c] EXCEPT !.nRel = @ + n])
     IN  wk' = [wk EXCEPT ![c] =
                  IF wk[c].tail THEN NextZone(w)
                  ELSE [w EXCEPT !.pc = "find", !.setbit = NextBit(@),
                                 !.ends = sg_init_table(c)]]
  /\ rb' = [rb EXCEPT
              ![wk[c].z] = BitmapAfterRelease(wk[c].z, ReturnedEntries(wk[c]),
                                              wk[c])]
  /\ hist' = BadAccess(\/ phconf[c].sg /= "live" \/ wk[c].stale
                       \/ Min(wk[c].ends) > Len(wk[c].sgl))
  /\ UNCHANGED <<page_reporting_conf, page_reporting_mutex, phconf, work,
                 reporting_bitmap, lc, hook, heap>>
  /\ UNCHANGED variants

\* the test after the loop left out: isolated pages short of max_pages are
\* never reported
TailPending_never(c) == FALSE

\* scan_zone_bitmap(): if (count) after the loop
TailPending(c) == wk[c].count > 0

\* scan_zone_bitmap(): after the loop a partial batch is reported too, its
\* last entry marked with sg_mark_end()
scan_zone_bitmap_tail(c) ==
  /\ work[c].nrun > 0
  /\ wk[c].pc = "tail"
  /\ IF TailPending(c)
     THEN wk' = [wk EXCEPT ![c].pc = "report", ![c].tail = TRUE,
                           ![c].ends = @ \cup {wk[c].count}]
     ELSE wk' = [wk EXCEPT ![c] = NextZone(wk[c])]
  /\ UNCHANGED <<page_reporting_conf, page_reporting_mutex, phconf, work,
                 reporting_bitmap, rb, blocks, lc, hook, heap, hist>>
  /\ UNCHANGED variants

\* page_reporting_wq(): __clear_bit(PAGE_REPORTING_ACTIVE, &phconf->flags)
\* and return to the workqueue
page_reporting_wq_done(c) ==
  /\ work[c].nrun > 0
  /\ wk[c].pc = "done"
  /\ phconf' = [phconf EXCEPT ![c].flags = FALSE]
  /\ work' = [work EXCEPT ![c].nrun = @ - 1]
  /\ wk' = [wk EXCEPT ![c] = IdleWk]
  /\ UNCHANGED <<page_reporting_conf, page_reporting_mutex, reporting_bitmap,
                 rb, blocks, lc, hook, heap, hist>>
  /\ UNCHANGED variants

Worker ==
  \/ \E c \in Configs : page_reporting_wq_start(c)
  \/ \E c \in Configs : page_reporting_wq_zone(c)
  \/ \E c \in Configs : scan_zone_bitmap_find(c)
  \/ \E c \in Configs : scan_zone_bitmap_check(c)
  \/ \E c \in Configs : process_free_page_order(c)
  \/ \E c \in Configs : process_free_page_isolate(c)
  \/ \E c \in Configs : process_free_page_test(c)
  \/ \E c \in Configs : process_free_page_undo(c)
  \/ \E c \in Configs : scan_zone_bitmap_clear_bit(c)
  \/ \E c \in Configs : scan_zone_bitmap_atomic_dec(c)
  \/ \E c \in Configs : scan_zone_bitmap_report(c)
  \/ \E c \in Configs : scan_zone_bitmap_return(c)
  \/ \E c \in Configs : scan_zone_bitmap_tail(c)
  \/ \E c \in Configs : page_reporting_wq_done(c)

Next == Lifecycle \/ Hooks \/ Worker

Spec == Init /\ [][Next]_vars

(* ------------------- bitmap_set_bit() on a marked block ----------------- *)
\* The hook is called for a block that is already on the free list at a
\* reportable order and may already be marked: the free path merged freed
\* pages into the block, whose head page and bit stay the same.
page_reporting_enqueue_again(z, b) ==
  /\ hook[z].pc = "idle"
  /\ blocks[z][b].st = "free"
  /\ ~blocks[z][b].iso
  /\ ~BelowMinOrder(blocks[z][b].order)
  /\ ~EnqueueSeesNoConf
  /\ hist.frees < MaxFrees
  /\ hist' = [hist EXCEPT !.frees = @ + 1, !.latefree = @ \/ hist.scans > 0]
  /\ hook' = [hook EXCEPT ![z] = [pc |-> "e_rbitmap",
                                  cfg |-> page_reporting_conf, b |-> b]]
  /\ UNCHANGED <<page_reporting_conf, page_reporting_mutex, phconf, work,
                 reporting_bitmap, rb, blocks, lc, wk, heap>>
  /\ UNCHANGED variants

\* A configuration is enabled and idle; in every zone some blocks are free at
\* PAGE_REPORTING_MIN_ORDER, some of them marked, fewer than max_pages so
\* that no scan has been asked for yet.
InitMark ==
  /\ VariantsOff
  /\ page_reporting_conf \in Configs
  /\ page_reporting_mutex = FALSE
  /\ phconf = [c \in Configs |->
                 [sg |-> IF c = page_reporting_conf THEN "live" ELSE "null",
                  flags |-> FALSE]]
  /\ work = [c \in Configs |-> [pending |-> FALSE, nrun |-> 0]]
  /\ reporting_bitmap = [z \in Zones |-> TRUE]
  /\ \E marked \in [Zones -> SUBSET Blocks], free \in [Zones -> SUBSET Blocks] :
       /\ \A z \in Zones : /\ marked[z] \subseteq free[z]
                           /\ Cardinality(marked[z]) <
                                max_pages(page_reporting_conf)
       /\ rb = [z \in Zones |->
                  [obj |-> TRUE, bitmap |-> TRUE, nbits |-> BitmapSize,
                   bits |-> {BitNr(b) : b \in marked[z]},
                   free_pages |-> Cardinality(marked[z])]]
       /\ blocks = [z \in Zones |-> [b \in Blocks |->
                      IF b \in free[z]
                      THEN [st |-> "free", order |-> PAGE_REPORTING_MIN_ORDER,
                            iso |-> FALSE]
                      ELSE [st |-> "alloc", order |-> 0, iso |-> FALSE]]]
  /\ lc = IdleLc
  /\ hook = [z \in Zones |-> IdleHook]
  /\ wk = [c \in Configs |-> IdleWk]
  /\ heap = [leaked |-> 0]
  /\ hist = [quiesced |-> [c \in Configs |-> FALSE],
             uaf |-> FALSE, waited |-> FALSE, dirty |-> FALSE,
             lowfree |-> FALSE, nullfree |-> FALSE, dup |-> {},
             scans |-> 0, latefree |-> FALSE,
             calls |-> MaxCalls, frees |-> 0]

NextMark ==
  \/ \E z \in Zones, b \in Blocks : page_reporting_enqueue_again(z, b)
  \/ Hooks
  \/ Worker

SpecMark == InitMark /\ [][NextMark]_vars

(* ------------------------------ properties ----------------------------- *)
\* the worker of c is inside the report callback, or between its return and
\* return_isolated_page()
InCallback(c) == work[c].nrun > 0 /\ wk[c].pc \in {"report", "return"}

\* the range of a scatterlist entry is free and sits in an isolated pageblock
EntryIsolated(z, e) ==
  /\ blocks[z][e.b].st = "free"
  /\ blocks[z][e.b].iso
  /\ blocks[z][e.b].order >= e.order

\* C1: every block of a batch handed to the report callback is isolated, that
\* is free and in an isolated pageblock, from the call of the callback until
\* return_isolated_page() releases it
C1_BatchIsolated ==
  \A c \in Configs :
    InCallback(c) =>
      /\ Len(wk[c].sgl) >= 1
      /\ \A i \in 1..Len(wk[c].sgl) : EntryIsolated(wk[c].z, wk[c].sgl[i])

\* a batch is in the callback while another block of the zone, freed and
\* marked earlier in the run, has been allocated again
C1_Witness ==
  \E c \in Configs :
    /\ work[c].nrun > 0
    /\ wk[c].pc = "report"
    /\ Len(wk[c].sgl) >= 1
    /\ hist.frees = MaxFrees
    /\ \E b \in Blocks : blocks[wk[c].z][b].st = "alloc"

\* the scan of c holds block b of zone z isolated
HeldByScan(c, z, b) ==
  /\ work[c].nrun > 0
  /\ wk[c].z = z
  /\ \/ /\ wk[c].pc \in {"test", "undo"}
        /\ wk[c].setbit = b
     \/ /\ wk[c].pc \in {"find", "check", "order", "isolate", "test", "undo",
                         "clear", "dec", "report", "return", "tail"}
        /\ \E i \in 1..Len(wk[c].sgl) : wk[c].sgl[i].b = b

\* C2: no leak. A block is isolated only while the scan of its zone holds it,
\* and when the scan of a zone is over the blocks it isolated have all been
\* returned: the number of isolates equals the number of releases
C2_NoLeak ==
  /\ \A z \in Zones, b \in Blocks :
       blocks[z][b].iso => \E c \in Configs : HeldByScan(c, z, b)
  /\ \A c \in Configs :
       wk[c].pc \in {"zone", "done", "idle"} =>
         /\ wk[c].nIso = wk[c].nRel
         /\ wk[c].sgl = <<>>

\* the scan of a zone is over after a partial batch was reported and returned
C2_Witness ==
  \E c \in Configs :
    /\ wk[c].pc \in {"zone", "done"}
    /\ wk[c].tail
    /\ wk[c].nRel >= 1
    /\ wk[c].nRel < max_pages(c)

\* C3: once page_reporting_disable() of the active configuration has returned
\* the work function of that configuration neither runs nor is queued, so no
\* callback follows, and no run has touched a freed bitmap or scatterlist
C3_QuiescentAfterDisable ==
  /\ ~hist.uaf
  /\ \A c \in Configs :
       hist.quiesced[c] =>
         /\ work[c].nrun = 0
         /\ ~work[c].pending
         /\ wk[c].pc = "idle"

\* disable has returned after it found the work item queued or running
C3_Witness ==
  \E c \in Configs :
    /\ hist.quiesced[c]
    /\ hist.waited
    /\ lc.pc = "idle"

C5_MutexReleasedOnReturn == lc.pc = "idle" => ~page_reporting_mutex

\* what a rejected or failed enable must leave alone
LifecycleFrame == <<page_reporting_conf, phconf, work, reporting_bitmap, rb,
                    blocks, hook, wk, heap>>

\* the published configuration is complete: scatterlist and every zone's
\* bitmap object exist
ActiveIntact ==
  /\ page_reporting_conf /= NULL
  /\ phconf[page_reporting_conf].sg = "live"
  /\ \A z \in Zones : reporting_bitmap[z] /\ rb[z].obj /\ rb[z].bitmap

\* the step of page_reporting_enable() that finds a configuration published
C6_CheckStep ==
  (lc.pc = "en_check" /\ page_reporting_conf /= NULL /\ lc' /= lc) =>
    /\ lc'.pc = "en_out"
    /\ lc'.ret = "EBUSY"
    /\ UNCHANGED LifecycleFrame

\* the return of page_reporting_enable() with -EBUSY
C6_ReturnStep ==
  (lc.pc = "en_out" /\ lc.ret = "EBUSY" /\ lc' /= lc) =>
    /\ lc' = IdleLc
    /\ UNCHANGED LifecycleFrame

\* C6: page_reporting_enable() while a configuration is published returns
\* -EBUSY and none of its steps changes the published configuration, a
\* scatterlist pointer, a zone's bitmap object or the heap
C6_EnableBusyNoEffect ==
  /\ [][C6_CheckStep /\ C6_ReturnStep]_vars
  /\ [](lc.pc = "en_out" /\ lc.ret = "EBUSY" => ActiveIntact)
  /\ [](lc.op = "enable" /\ lc.pc \notin {"en_check", "en_out"}
          => page_reporting_conf = NULL)

\* enable is about to return -EBUSY while bits are set in a zone's bitmap
C6_Witness ==
  /\ lc.pc = "en_out"
  /\ lc.ret = "EBUSY"
  /\ \E z \in Zones : rb[z].bits /= {}

\* nothing of a configuration is visible: no zone points to a bitmap object,
\* no hook is past its NULL test, no work is queued or running
NothingPublished ==
  /\ page_reporting_conf = NULL
  /\ \A z \in Zones : ~reporting_bitmap[z] /\ rb[z] = NoRbitmap
                        /\ hook[z].pc = "idle"
  /\ \A c \in Configs : work[c].nrun = 0 /\ ~work[c].pending

\* C7: when page_reporting_enable() is about to return -ENOMEM nothing is
\* published, and while it was initialising the zones no configuration was
\* published, so no enqueue got past its NULL test
C7_NoPartialEnable ==
  /\ (lc.pc = "en_out" /\ lc.ret = "ENOMEM") =>
        NothingPublished /\ phconf[lc.cfg].sg /= "live"
  /\ (lc.op = "enable" /\ lc.pc \notin {"en_check", "en_out"}) =>
        /\ page_reporting_conf = NULL
        /\ \A z \in Zones : hook[z].pc = "idle"
        /\ \A c \in Configs : work[c].nrun = 0 /\ ~work[c].pending

\* enable is about to return -ENOMEM after a zone that was already
\* initialised had to be cleaned up
C7_Witness ==
  /\ lc.pc = "en_out"
  /\ lc.ret = "ENOMEM"
  /\ lc.nclean >= 1

\* C8: when page_reporting_enable() returns -ENOMEM every allocation of the
\* call has been freed: scatterlist, zone_reporting_bitmap objects, bitmaps
C8_AllFreedOnFailure ==
  (lc.pc = "en_out" /\ lc.ret = "ENOMEM") =>
    /\ heap.leaked = 0
    /\ phconf[lc.cfg].sg /= "live"
    /\ \A z \in Zones : rb[z] = NoRbitmap

\* C9: when page_reporting_disable() of the active configuration returns, no
\* configuration is published, its scatterlist pointer is NULL and its work
\* item is idle; enable is rejected with -EBUSY only while a configuration is
\* published, and an enable that returns 0 has published its configuration
C9_EnableAfterDisable ==
  /\ lc.pc = "di_unlock" =>
       /\ page_reporting_conf = NULL
       /\ phconf[lc.cfg].sg = "null"
       /\ work[lc.cfg].nrun = 0 /\ ~work[lc.cfg].pending
  /\ (lc.op = "enable" /\ lc.ret = "EBUSY") => page_reporting_conf /= NULL
  /\ (lc.pc = "en_out" /\ lc.ret = "0") =>
       ActiveIntact /\ page_reporting_conf = lc.cfg

\* the last call of the run is an enable that returns 0, after a disable
\* that found the scan queued or running
C9_Witness ==
  /\ lc.pc = "en_out"
  /\ lc.ret = "0"
  /\ hist.waited
  /\ hist.calls = MaxCalls

\* no zone has a bitmap object
NoZoneBitmap == \A z \in Zones : ~reporting_bitmap[z] /\ rb[z] = NoRbitmap

\* C10: when disable returns no zone has a bitmap object, and none appears
\* before the next enable; when a configuration is published every zone's
\* bitmap is all clear and its free_pages is 0
C10_NoBitOutlives ==
  /\ lc.pc = "di_unlock" => NoZoneBitmap
  /\ (page_reporting_conf = NULL /\ lc.pc = "idle") => NoZoneBitmap
  /\ lc.pc = "en_publish" =>
       \A z \in Zones : /\ reporting_bitmap[z]
                        /\ rb[z].bits = {}
                        /\ rb[z].free_pages = 0
  /\ (page_reporting_conf = NULL /\ lc.op /= "disable") =>
       \A z \in Zones : rb[z].bits = {} /\ rb[z].free_pages = 0

\* a configuration is about to be published after a disable that freed a
\* bitmap with bits set
C10_Witness ==
  /\ lc.pc = "en_publish"
  /\ hist.dirty

\* C11: a batch in the report callback has between 1 and max_pages entries,
\* and the scatterlist never holds more than max_pages entries
C11_BatchLength ==
  \A c \in Configs :
    /\ Len(wk[c].sgl) <= max_pages(c)
    /\ wk[c].count = Len(wk[c].sgl)
    /\ InCallback(c) => Len(wk[c].sgl) >= 1

\* a full batch of more than one entry is in the callback
C11_Witness ==
  \E c \in Configs :
    /\ work[c].nrun > 0
    /\ wk[c].pc = "report"
    /\ ~wk[c].tail
    /\ Len(wk[c].sgl) = max_pages(c)
    /\ max_pages(c) >= 2

\* C12: no entry of a batch has an order below PAGE_REPORTING_MIN_ORDER
C12_MinOrderFilter ==
  \A c \in Configs :
    \A i \in 1..Len(wk[c].sgl) :
      wk[c].sgl[i].order >= PAGE_REPORTING_MIN_ORDER

\* the free path puts block b of zone z on the free list at an order below
\* PAGE_REPORTING_MIN_ORDER
LowOrderFree(z, b) ==
  /\ blocks[z][b].st = "alloc"
  /\ blocks'[z][b].st = "free"
  /\ blocks'[z][b].order < PAGE_REPORTING_MIN_ORDER

\* C13: a free below PAGE_REPORTING_MIN_ORDER sets no bit, leaves free_pages
\* as it is, and neither sets PAGE_REPORTING_ACTIVE nor queues the work: the
\* hook of the zone is over with the free
C13_LowOrderIgnored ==
  [][\A z \in Zones, b \in Blocks :
       LowOrderFree(z, b) => UNCHANGED <<rb, reporting_bitmap, phconf, work,
                                         hook>>]_vars

\* a block was freed below the minimum order while a configuration was
\* published and its zone had a bitmap, and no bit is set anywhere
C13_Witness ==
  /\ hist.lowfree
  /\ page_reporting_conf /= NULL
  /\ \A z \in Zones : rb[z].bits = {} /\ rb[z].free_pages = 0
  /\ \E z \in Zones, b \in Blocks :
       /\ blocks[z][b].st = "free"
       /\ blocks[z][b].order < PAGE_REPORTING_MIN_ORDER

\* the hook of zone z is about to do test_and_set_bit() on a bit that is set
MarksSetBit(z) ==
  /\ hook[z].pc = "e_rbitmap"
  /\ hook'[z] /= hook[z]
  /\ reporting_bitmap[z]
  /\ BitNr(hook[z].b) \in rb[z].bits

\* free_pages of zone z goes up in this step
PendingGoesUp(z) ==
  /\ rb[z].obj
  /\ rb'[z].obj
  /\ rb'[z].free_pages > rb[z].free_pages

\* the scan of c adds an entry to the scatterlist in this step
AddsEntry(c) == Len(wk'[c].sgl) = Len(wk[c].sgl) + 1

\* C14: bitmap_set_bit() on a set bit changes neither the bitmap nor
\* free_pages; free_pages goes up by one, and only right after a bit went
\* from 0 to 1; and a scan of a zone puts a block into a batch at most once:
\* it adds blocks in ascending order and goes on behind a returned batch
C14_MarkIdempotent ==
  [][/\ \A z \in Zones :
          /\ MarksSetBit(z) => UNCHANGED rb /\ hook'[z].pc = "e_thresh"
          /\ PendingGoesUp(z) =>
               /\ hook[z].pc = "e_inc"
               /\ rb'[z].free_pages = rb[z].free_pages + 1
               /\ rb'[z].bits = rb[z].bits
          /\ (hook[z].pc /= "e_inc" /\ hook'[z].pc = "e_inc") =>
               /\ BitNr(hook'[z].b) \notin rb[z].bits
               /\ BitNr(hook'[z].b) \in rb'[z].bits
     /\ \A c \in Configs :
          /\ AddsEntry(c) =>
               /\ wk'[c].sgl[Len(wk'[c].sgl)].b = wk[c].setbit
               /\ \A i \in 1..Len(wk[c].sgl) : wk[c].sgl[i].b < wk[c].setbit
          /\ (wk[c].pc = "return" /\ wk'[c].pc = "find") =>
               \A i \in 1..Len(wk[c].sgl) : wk[c].sgl[i].b < wk'[c].setbit
          /\ (wk[c].pc = "find" /\ wk'[c].pc = "check") =>
               wk'[c].setbit >= wk[c].setbit
    ]_vars

\* a block whose bit was found set by a second enqueue is in the batch that
\* is being reported
C14_Witness ==
  \E c \in Configs :
    /\ work[c].nrun > 0
    /\ wk[c].pc = "report"
    /\ \E i \in 1..Len(wk[c].sgl) : <<wk[c].z, wk[c].sgl[i].b>> \in hist.dup

\* the free path puts block b of zone z on the free list while no
\* configuration is published
FreeWithoutConf(z, b) ==
  /\ blocks[z][b].st = "alloc"
  /\ blocks'[z][b].st = "free"
  /\ page_reporting_conf = NULL

\* C15: a free while page_reporting_conf is NULL sets no bit, changes no
\* free_pages counter and no flag, and queues no work: the hook of the zone
\* is over with the free
C15_NoConfNoEffect ==
  [][\A z \in Zones, b \in Blocks :
       FreeWithoutConf(z, b) => UNCHANGED <<rb, reporting_bitmap, phconf, work,
                                            hook>>]_vars

\* a block was freed at a reportable order while no configuration was
\* published and its zone had a bitmap; the bit of such a block is clear
C15_Witness ==
  /\ hist.nullfree
  /\ page_reporting_conf = NULL
  /\ \E z \in Zones, b \in Blocks :
       /\ reporting_bitmap[z]
       /\ blocks[z][b].st = "free"
       /\ blocks[z][b].order >= PAGE_REPORTING_MIN_ORDER
       /\ BitNr(b) \notin rb[z].bits

\* the hook of zone z goes on from the test of lines 259-260 in this step
PassesThreshold(z) == hook[z].pc = "e_thresh" /\ hook'[z].pc = "e_setflag"

\* the hook of zone z calls schedule_work() in this step
CallsScheduleWork(z) == hook[z].pc = "e_sched" /\ hook'[z].pc = "idle"

\* C16: the hook asks for a scan exactly when free_pages >= max_pages and
\* PAGE_REPORTING_ACTIVE is clear, and then sets the flag and queues the work;
\* with the flag set it queues nothing, so that frees which are all over
\* before the work function starts lead to one run of it
C16_OneScanPerBurst ==
  /\ [][\A z \in Zones :
          /\ (hook[z].pc = "e_thresh" /\ hook'[z] /= hook[z]) =>
               (PassesThreshold(z) <=>
                  /\ rb[z].free_pages >= max_pages(hook[z].cfg)
                  /\ ~phconf[hook[z].cfg].flags)
          /\ CallsScheduleWork(z) =>
               /\ phconf[hook[z].cfg].flags
               /\ work'[hook[z].cfg].pending]_vars
  /\ [](~hist.latefree => hist.scans <= 1)

\* two zones have reached max_pages, every free is over, and the work is
\* queued once and has not started
C16_Witness ==
  \E c \in Configs :
    /\ page_reporting_conf = c
    /\ work[c].pending
    /\ work[c].nrun = 0
    /\ phconf[c].flags
    /\ hist.scans = 0
    /\ \A z \in Zones : /\ hook[z].pc = "idle"
                        /\ rb[z].free_pages >= max_pages(c)

\* C17: a block that is allocated when the scan validates it is not put into
\* the batch, whether it was allocated before the test of PageBuddy or
\* between that test and test_pages_isolated(); no entry of the scatterlist
\* is an allocated block
C17_ReallocationInvalidates ==
  /\ [][\A c \in Configs :
          AddsEntry(c) =>
            /\ blocks[wk[c].z][wk[c].setbit].st = "free"
            /\ blocks'[wk[c].z][wk[c].setbit].st = "free"]_vars
  /\ [](\A c \in Configs :
          \A i \in 1..Len(wk[c].sgl) :
            blocks[wk[c].z][wk[c].sgl[i].b].st = "free")

\* the scan has passed the test of PageBuddy for a block and isolated its
\* range, the block was allocated in between, and the scan is about to undo
\* the isolation
C17_Witness ==
  \E c \in Configs :
    /\ work[c].nrun > 0
    /\ wk[c].pc = "undo"
    /\ blocks[wk[c].z][wk[c].setbit].st = "alloc"
    /\ \A i \in 1..Len(wk[c].sgl) : wk[c].sgl[i].b /= wk[c].setbit

\* the allocate path takes block b of zone z off the free list in this step
Allocates(z, b) == blocks[z][b].st = "free" /\ blocks'[z][b].st = "alloc"

\* C18: when a block of at least PAGE_REPORTING_MIN_ORDER is allocated while a
\* configuration is active, its bit is cleared if it was set and free_pages
\* goes down by one; otherwise the bitmap and free_pages stay as they are.
\* So while a configuration is active no bit is set for an allocated block
C18_DequeueInvalidates ==
  /\ [][\A z \in Zones, b \in Blocks :
          Allocates(z, b) =>
            IF /\ blocks[z][b].order >= PAGE_REPORTING_MIN_ORDER
               /\ page_reporting_conf /= NULL
               /\ reporting_bitmap[z]
               /\ BitNr(b) \in rb[z].bits
            THEN /\ rb'[z].bits = rb[z].bits \ {BitNr(b)}
                 /\ rb'[z].free_pages = rb[z].free_pages - 1
                 /\ \A y \in Zones \ {z} : rb'[y] = rb[y]
            ELSE UNCHANGED rb]_vars
  /\ [](\A z \in Zones, b \in Blocks :
          (page_reporting_conf /= NULL /\ BitNr(b) \in rb[z].bits) =>
             blocks[z][b].st = "free")

\* the scan found the bit of a block set, and before it tested the block the
\* block was allocated and its bit cleared
C18_Witness ==
  \E c \in Configs :
    /\ page_reporting_conf = c
    /\ work[c].nrun > 0
    /\ wk[c].pc = "check"
    /\ blocks[wk[c].z][wk[c].setbit].st = "alloc"
    /\ wk[c].setbit \notin rb[wk[c].z].bits

\* the scan of c returns a batch to the allocator in this step
ReturnsBatch(c) ==
  /\ work[c].nrun > 0
  /\ wk[c].pc = "return"
  /\ wk'[c].pc /= "return"

\* C19: return_isolated_page() sets no bit, leaves free_pages as it is and
\* queues no work; the bit of every block of the batch is clear before and
\* after the release, so a later scan does not find it
C19_ReleaseDoesNotRemark ==
  [][\A c \in Configs :
       ReturnsBatch(c) =>
         /\ UNCHANGED <<rb, work, phconf, hook>>
         /\ \A i \in 1..Len(wk[c].sgl) :
              /\ BitNr(wk[c].sgl[i].b) \notin rb'[wk[c].z].bits
              /\ blocks'[wk[c].z][wk[c].sgl[i].b].st = "free"]_vars

\* a scan is over after it reported and returned a block; the block is free,
\* not isolated, and no bit is set in its zone
C19_Witness ==
  \E c \in Configs, z \in Zones, b \in Blocks :
    /\ work[c].nrun > 0
    /\ wk[c].pc = "done"
    /\ wk[c].nRel >= 1
    /\ blocks[z][b].st = "free"
    /\ blocks[z][b].order >= PAGE_REPORTING_MIN_ORDER
    /\ ~blocks[z][b].iso
    /\ rb[z].bits = {}
    /\ hist.frees = 1

\* the scan of c passes a batch to the report callback in this step
CallsReport(c) == wk[c].pc /= "report" /\ wk'[c].pc = "report"

\* C20: when page_reporting_disable() is called while the report callback of
\* the configuration is running, no further batch is passed to the callback
\* once disable has reset page_reporting_conf,
\* and when disable returns the work function is over and every block it
\* isolated has been returned
C20_DisableDuringCallback ==
  /\ [][\A c \in Configs :
          (lc.op = "disable" /\ lc.cfg = c /\ lc.incb /\ lc.pc /= "di_check")
            => ~CallsReport(c)]_vars
  /\ []((lc.pc = "di_unlock" /\ lc.incb) =>
          /\ work[lc.cfg].nrun = 0
          /\ wk[lc.cfg].pc = "idle"
          /\ \A z \in Zones, b \in Blocks : ~blocks[z][b].iso)

(* -------------------- a scan with the allocator quiet ------------------- *)
ScanBlocks == 0..(NScanBlocks - 1)

\* A configuration is enabled and its work item queued; in every zone the
\* marked blocks are the blocks that are free at PAGE_REPORTING_MIN_ORDER,
\* free_pages counts them, every other block is allocated.
InitScan ==
  /\ VariantsOff
  /\ page_reporting_conf \in Configs
  /\ page_reporting_mutex = FALSE
  /\ phconf = [c \in Configs |->
                 IF c = page_reporting_conf
                 THEN [sg |-> "live", flags |-> TRUE]
                 ELSE [sg |-> "null", flags |-> FALSE]]
  /\ work = [c \in Configs |-> [pending |-> c = page_reporting_conf,
                                nrun |-> 0]]
  /\ reporting_bitmap = [z \in Zones |-> TRUE]
  /\ \E marked \in [Zones -> SUBSET ScanBlocks] :
       /\ rb = [z \in Zones |->
                  [obj |-> TRUE, bitmap |-> TRUE, nbits |-> NScanBlocks + 1,
                   bits |-> {BitNr(b) : b \in marked[z]},
                   free_pages |-> Cardinality(marked[z])]]
       /\ blocks = [z \in Zones |-> [b \in ScanBlocks |->
                      IF b \in marked[z]
                      THEN [st |-> "free", order |-> PAGE_REPORTING_MIN_ORDER,
                            iso |-> FALSE]
                      ELSE [st |-> "alloc", order |-> 0, iso |-> FALSE]]]
  /\ lc = IdleLc
  /\ hook = [z \in Zones |-> IdleHook]
  /\ wk = [c \in Configs |-> IdleWk]
  /\ heap = [leaked |-> 0]
  /\ hist = [quiesced |-> [c \in Configs |-> FALSE],
             uaf |-> FALSE, waited |-> FALSE, dirty |-> FALSE,
             lowfree |-> FALSE, nullfree |-> FALSE, dup |-> {},
             scans |-> 0, latefree |-> FALSE,
             calls |-> MaxCalls, frees |-> MaxFrees]

\* the work item runs alone: nothing is freed or allocated, so
\* test_pages_isolated() never finds a page of an isolated range in use and
\* undo_isolate_page_range() is not reached
NextScan ==
  \/ \E c \in Configs : page_reporting_wq_start(c)
  \/ \E c \in Configs : page_reporting_wq_zone(c)
  \/ \E c \in Configs : scan_zone_bitmap_find(c)
  \/ \E c \in Configs : scan_zone_bitmap_check(c)
  \/ \E c \in Configs : process_free_page_order(c)
  \/ \E c \in Configs : process_free_page_isolate(c)
  \/ \E c \in Configs : process_free_page_test(c)
  \/ \E c \in Configs : scan_zone_bitmap_clear_bit(c)
  \/ \E c \in Configs : scan_zone_bitmap_atomic_dec(c)
  \/ \E c \in Configs : scan_zone_bitmap_report(c)
  \/ \E c \in Configs : scan_zone_bitmap_return(c)
  \/ \E c \in Configs : scan_zone_bitmap_tail(c)
  \/ \E c \in Configs : page_reporting_wq_done(c)

SpecScan == InitScan /\ [][NextScan]_vars

\* the blocks of zone z that are free; with the allocator quiet these are the
\* blocks that were marked when the scan started
FreeBlocks(z) == {b \in DOMAIN blocks[z] : blocks[z][b].st = "free"}

\* the n-th block of S in ascending order
NthBlock(S, n) == CHOOSE x \in S : Cardinality({y \in S : y < x}) = n - 1

\* the scan of zone wk[c].z ends in this step
ScanEnds(c) ==
  /\ wk[c].pc \in {"tail", "return"}
  /\ wk'[c].pc \in {"zone", "done"}

\* C21: a scan of one zone that finds k marked blocks, all of them still
\* free and isolated successfully, with the allocator quiet, reports every
\* one of them exactly once: each batch handed to the callback holds the next
\* blocks in ascending order after the ones already released, a batch inside
\* the loop has max_pages entries, the batch after the loop has k mod
\* max_pages > 0 entries and comes after floor(k / max_pages) full ones, and
\* when the scan ends k blocks have been reported and released.
C21_ScanBatches ==
  /\ [](\A c \in Configs :
          (work[c].nrun > 0 /\ wk[c].pc = "report") =>
            LET k == Cardinality(FreeBlocks(wk[c].z))
                m == max_pages(c)
            IN  /\ Len(wk[c].sgl) = wk[c].count
                /\ wk[c].nRel % m = 0
                /\ \A i \in 1..wk[c].count :
                     wk[c].sgl[i].b = NthBlock(FreeBlocks(wk[c].z),
                                               wk[c].nRel + i)
                /\ ~wk[c].tail => wk[c].count = m
                /\ wk[c].tail => /\ wk[c].count = k % m
                                 /\ wk[c].count > 0
                                 /\ wk[c].nRel = m * (k \div m))
  /\ [][\A c \in Configs :
          ScanEnds(c) =>
            /\ wk'[c].nRel = Cardinality(FreeBlocks(wk[c].z))
            /\ \A b \in FreeBlocks(wk[c].z) : ~blocks'[wk[c].z][b].iso]_vars

\* a scan with max_pages = 2 of a zone with three marked blocks has released
\* a full batch and is reporting the partial batch of one
C21_Witness ==
  \E c \in Configs :
    /\ work[c].nrun > 0
    /\ wk[c].pc = "report"
    /\ wk[c].tail
    /\ max_pages(c) = MaxPages
    /\ Cardinality(FreeBlocks(wk[c].z)) = MaxPages + 1
    /\ wk[c].nRel = MaxPages
    /\ wk[c].count = 1

\* the worker of c executes clear_bit() for its candidate in this step
ClearsCandidate(c) ==
  /\ work[c].nrun > 0
  /\ wk[c].pc = "clear"
  /\ wk'[c].pc = "dec"

\* block b of zone z is in the batch the worker of c is filling
InBatch(c, b) == \E i \in 1..Len(wk[c].sgl) : wk[c].sgl[i].b = b

\* C22: the scanner clears the candidate's bit before it reads the allocator
\* state, so a free concurrent with the scan step is never lost: the
\* scanner's clear_bit() never removes the mark of a block that is free at a
\* reportable order and that the scan step has not captured (it is neither
\* isolated nor in the batch), which is a block freed and marked after the
\* scanner last looked at it.
C22_FreeNotLost ==
  [][\A c \in Configs :
       ClearsCandidate(c) =>
         ~(/\ ~wk[c].stale
           /\ wk[c].setbit \in rb[wk[c].z].bits
           /\ wk[c].setbit \in DOMAIN blocks[wk[c].z]
           /\ StillFree(wk[c].z, wk[c].setbit)
           /\ ~blocks[wk[c].z][wk[c].setbit].iso
           /\ ~InBatch(c, wk[c].setbit))]_vars

\* the worker of c is inside the step for one candidate: from the test of
\* the page's state to atomic_dec()
InScanStep(c) ==
  /\ work[c].nrun > 0
  /\ ~wk[c].stale
  /\ wk[c].pc \in {"check", "order", "isolate", "test", "undo", "clear", "dec"}

\* C23: the scanner's re-validation, isolation, clear_bit() and atomic_dec()
\* of one candidate form one critical section of the zone's lock: while the
\* worker is inside the step no free path holds the lock of that zone or
\* takes it, and no block of the zone is freed or allocated.
C23_ScanStepUnderZoneLock ==
  [][\A c \in Configs :
       InScanStep(c) =>
         /\ hook[wk[c].z].pc = "idle"
         /\ hook'[wk[c].z].pc = "idle"
         /\ \A b \in Blocks :
              blocks'[wk[c].z][b].st = blocks[wk[c].z][b].st]_vars

\* the worker of c has inspected every zone and is about to clear
\* PAGE_REPORTING_ACTIVE and return
RunOver(c) == work[c].nrun > 0 /\ wk[c].pc = "done"

DisableUnpublished(c) ==
  /\ lc.op = "disable"
  /\ lc.cfg = c
  /\ lc.pc \notin {"idle", "di_check"}

\* the workqueue starts the work function of c in this step
EntersRunning(c) == work'[c].nrun > work[c].nrun

\* C25: once page_reporting_disable() has unpublished the configuration, a
\* work item that is queued but not running is never started.
C25_PendingNeverRuns ==
  [][\A c \in Configs : DisableUnpublished(c) => ~EntersRunning(c)]_vars

\* nothing is in progress: no enable or disable, no free path inside a hook,
\* no work item queued or running
AtRest ==
  /\ lc.pc = "idle"
  /\ \A z \in Zones : hook[z].pc = "idle"
  /\ \A c \in Configs : ~work[c].pending /\ work[c].nrun = 0

\* C26: a zone whose free_pages reaches max_pages while
\* PAGE_REPORTING_ACTIVE is set is scanned in the same cycle: the system
\* never rests with a configuration published, a zone at or above max_pages,
\* PAGE_REPORTING_ACTIVE clear and no work item queued or running.
C26_ThresholdAbsorbed ==
  (AtRest /\ page_reporting_conf /= NULL /\ ~phconf[page_reporting_conf].flags)
    => \A z \in Zones :
         ~(reporting_bitmap[z]
           /\ rb[z].free_pages >= max_pages(page_reporting_conf))

\* C27: every entry of a batch handed to the callback is a block of the zone
\* being scanned; the batch is empty whenever the scan of a zone ends and the
\* worker moves on; so return_isolated_page() with that zone returns every
\* entry to its own zone.
C27_BatchOneZone ==
  /\ [](\A c \in Configs :
          (work[c].nrun > 0 /\ wk[c].pc \in {"report", "return"}) =>
            \A i \in 1..Len(wk[c].sgl) : wk[c].sgl[i].z = wk[c].z)
  /\ [][\A c \in Configs :
          ScanEnds(c) => wk'[c].sgl = <<>> /\ wk'[c].count = 0]_vars
  /\ [][\A c \in Configs :
          ReturnsBatch(c) =>
            \A i \in 1..Len(wk[c].sgl) :
              ~blocks'[wk[c].sgl[i].z][wk[c].sgl[i].b].iso]_vars

\* the worker has moved on from zone 1, where a free block is no longer
\* marked, and is handing a batch of a later zone to the callback
C27_Witness ==
  \E c \in Configs :
    /\ work[c].nrun > 0
    /\ wk[c].pc = "report"
    /\ wk[c].z > 1
    /\ Len(wk[c].sgl) > 0
    /\ \E b \in Blocks : blocks[1][b].st = "free" /\ ~blocks[1][b].iso
                         /\ BitNr(b) \notin rb[1].bits

\* workers that have cleared a bit of zone z and not yet decremented
\* free_pages
ClearsInFlight(z) ==
  Cardinality({c \in Configs : /\ work[c].nrun > 0
                               /\ wk[c].z = z
                               /\ wk[c].pc = "dec"})

\* the free path of zone z has set a bit and not yet incremented free_pages
MarkInFlight(z) == hook[z].pc = "e_inc"

\* C28: free_pages tracks the bitmap: it never exceeds the number of set
\* bits by more than the number of clears in flight, and whenever no mark and
\* no clear is in flight it equals the number of set bits; in particular it
\* is not negative then.
C28_PendingTracksBitmap ==
  \A z \in Zones :
    rb[z].obj =>
      /\ rb[z].free_pages <= Cardinality(rb[z].bits) + ClearsInFlight(z)
      /\ (~MarkInFlight(z) /\ ClearsInFlight(z) = 0) =>
           /\ rb[z].free_pages = Cardinality(rb[z].bits)
           /\ rb[z].free_pages >= 0

\* for_each_set_bit() of the worker of c arrives at a set bit in this step
Visits(c) ==
  /\ work[c].nrun > 0
  /\ wk[c].pc = "find"
  /\ wk'[c].pc = "check"

\* a step of the work function of c
WorkerStep(c) == work[c].nrun > 0 /\ wk'[c] /= wk[c] /\ work'[c] = work[c]

\* C29 as stated: a bit set while the scan of its zone is in progress is not
\* processed by that scan: every bit the scan processes was set when the
\* scan of the zone started.
C29_OnlyBitsSetAtStart ==
  \A c \in Configs :
    (work[c].nrun > 0 /\ ~wk[c].stale /\ wk[c].pc = "check") =>
      wk[c].setbit \in wk[c].snap

\* C29 (amended): the scan goes through the bitmap once, in ascending order:
\* a bit set while the scan is in progress is processed by that scan when its
\* index is above the index the scan is at; a bit set below that index is
\* not processed by the scan in progress (the scan never goes back and
\* clears no bit but the one it is at), it is left for a later scan.
C29_AscendingSinglePass ==
  /\ [][\A c \in Configs :
          Visits(c) => wk'[c].setbit >= wk[c].setbit]_vars
  /\ [][\A c \in Configs :
          (WorkerStep(c) /\ wk[c].pc \in {"check", "order", "isolate", "test",
                                          "undo", "clear", "dec", "report",
                                          "return"}) =>
            /\ wk'[c].pc = "find" => wk'[c].setbit = wk[c].setbit + 1
            /\ wk'[c].pc \notin {"find", "zone", "done"}
                 => wk'[c].setbit = wk[c].setbit
            /\ \A i \in rb[wk[c].z].bits \ {wk[c].setbit} :
                 i \in rb'[wk[c].z].bits]_vars

\* the scan is at bit 1 and bit 0, which was clear when the scan of the zone
\* started, has been set behind it
C29_Witness ==
  \E c \in Configs :
    /\ work[c].nrun > 0
    /\ ~wk[c].stale
    /\ wk[c].pc = "check"
    /\ wk[c].setbit = 1
    /\ 0 \notin wk[c].snap
    /\ 0 \in rb[wk[c].z].bits

\* the candidate of the worker of c is not reportable: it has been allocated
\* since it was marked, or it is free only below PAGE_REPORTING_MIN_ORDER
CandidateInvalid(c) ==
  \/ blocks[wk[c].z][wk[c].setbit].st = "alloc"
  \/ blocks[wk[c].z][wk[c].setbit].order < PAGE_REPORTING_MIN_ORDER

\* the worker of c is finishing the step of a candidate it did not put in
\* the batch
DropsCandidate(c) ==
  /\ work[c].nrun > 0
  /\ ~wk[c].stale
  /\ wk[c].pc \in {"clear", "dec"}
  /\ ~InBatch(c, wk[c].setbit)
  /\ WorkerStep(c)

C31_IsolationFailureSkipped ==
  /\ [][\A c \in Configs :
          (WorkerStep(c) /\ wk[c].pc = "isolate" /\ wk'[c].pc /= "test") =>
            /\ wk'[c].pc = "clear"
            /\ blocks' = blocks
            /\ wk'[c].sgl = wk[c].sgl /\ wk'[c].count = wk[c].count]_vars
  /\ [][\A c \in Configs :
          (WorkerStep(c) /\ wk[c].pc = "test"
             /\ test_pages_isolated(wk[c].z, wk[c].setbit, wk[c].order)
                  = "EBUSY") =>
            /\ wk'[c].pc = "undo"
            /\ wk'[c].sgl = wk[c].sgl /\ wk'[c].count = wk[c].count]_vars
  /\ [][\A c \in Configs :
          (WorkerStep(c) /\ wk[c].pc = "undo") =>
            /\ wk'[c].pc = "clear"
            /\ ~blocks'[wk[c].z][wk[c].setbit].iso
            /\ wk'[c].sgl = wk[c].sgl /\ wk'[c].count = wk[c].count]_vars
  /\ [][\A c \in Configs :
          (DropsCandidate(c) /\ wk[c].pc = "dec") =>
            /\ wk'[c].pc = "find"
            /\ wk'[c].setbit = wk[c].setbit + 1]_vars
  /\ [](\A c \in Configs :
          (work[c].nrun > 0 /\ ~wk[c].stale /\ wk[c].pc \in {"clear", "dec"}
             /\ ~InBatch(c, wk[c].setbit)) =>
            ~blocks[wk[c].z][wk[c].setbit].iso)

\* the range of a candidate was isolated and test_pages_isolated() has
\* returned -EBUSY: the block is not in the batch and
\* undo_isolate_page_range() is next
C31_Witness ==
  \E c \in Configs :
    /\ work[c].nrun > 0
    /\ ~wk[c].stale
    /\ wk[c].pc = "undo"
    /\ ~InBatch(c, wk[c].setbit)
    /\ blocks[wk[c].z][wk[c].setbit].iso

(* ------------- a scan over blocks above the minimum order --------------- *)
\* As InitScan, but in a zone the blocks at bits 0 and 1 may have merged into
\* one free block of order PAGE_REPORTING_MIN_ORDER + 1: bit 0 is its head
\* page, bit 1 a tail page that is not PageBuddy; either bit may be set from
\* the time before the merge.
InitOrder ==
  /\ VariantsOff
  /\ page_reporting_conf \in Configs
  /\ page_reporting_mutex = FALSE
  /\ phconf = [c \in Configs |->
                 IF c = page_reporting_conf
                 THEN [sg |-> "live", flags |-> TRUE]
                 ELSE [sg |-> "null", flags |-> FALSE]]
  /\ work = [c \in Configs |-> [pending |-> c = page_reporting_conf,
                                nrun |-> 0]]
  /\ reporting_bitmap = [z \in Zones |-> TRUE]
  /\ \E marked \in [Zones -> SUBSET ScanBlocks], merged \in [Zones -> BOOLEAN] :
       /\ rb = [z \in Zones |->
                  [obj |-> TRUE, bitmap |-> TRUE, nbits |-> NScanBlocks + 1,
                   bits |-> {BitNr(b) : b \in marked[z]},
                   free_pages |-> Cardinality(marked[z])]]
       /\ blocks = [z \in Zones |-> [b \in ScanBlocks |->
                      IF merged[z] /\ b = 0
                      THEN [st |-> "free",
                            order |-> PAGE_REPORTING_MIN_ORDER + 1,
                            iso |-> FALSE]
                      ELSE IF merged[z] /\ b = 1
                      THEN [st |-> "tail", order |-> 0, iso |-> FALSE]
                      ELSE IF b \in marked[z]
                      THEN [st |-> "free", order |-> PAGE_REPORTING_MIN_ORDER,
                            iso |-> FALSE]
                      ELSE [st |-> "alloc", order |-> 0, iso |-> FALSE]]]
  /\ lc = IdleLc
  /\ hook = [z \in Zones |-> IdleHook]
  /\ wk = [c \in Configs |-> IdleWk]
  /\ heap = [leaked |-> 0]
  /\ hist = [quiesced |-> [c \in Configs |-> FALSE],
             uaf |-> FALSE, waited |-> FALSE, dirty |-> FALSE,
             lowfree |-> FALSE, nullfree |-> FALSE, dup |-> {},
             scans |-> 0, latefree |-> FALSE,
             calls |-> MaxCalls, frees |-> MaxFrees]

SpecOrder == InitOrder /\ [][NextScan]_vars

\* the blocks of zone z that are free and whose bit was set when the scan of
\* the zone started
MarkedFree(c) == {b \in FreeBlocks(wk[c].z) : BitNr(b) \in wk[c].snap}

\* C32: a marked block that is free at an order above
\* PAGE_REPORTING_MIN_ORDER is isolated as a whole and is one entry of the
\* batch, with the length of the whole block (PAGE_SIZE << order); it is not
\* subdivided, and no part of it is reported a second time in the same scan:
\* the entries of a scan are the marked free blocks, each once, and a set bit
\* at a tail page adds nothing.
C32_WholeBlockOnce ==
  /\ [](\A c \in Configs :
          (work[c].nrun > 0 /\ wk[c].pc = "report") =>
            /\ \A i \in 1..Len(wk[c].sgl) :
                 LET e == wk[c].sgl[i]
                 IN  /\ blocks[e.z][e.b].st = "free"
                     /\ blocks[e.z][e.b].iso
                     /\ e.order = blocks[e.z][e.b].order
                     /\ e.length = 2 ^ blocks[e.z][e.b].order
                     /\ e.b = NthBlock(MarkedFree(c), wk[c].nRel + i))
  /\ [][\A c \in Configs :
          ScanEnds(c) => wk'[c].nRel = Cardinality(MarkedFree(c))]_vars

\* a batch holds the block of order PAGE_REPORTING_MIN_ORDER + 1 as one
\* entry while the bit of its tail page is set as well
C32_Witness ==
  \E c \in Configs :
    /\ work[c].nrun > 0
    /\ wk[c].pc = "report"
    /\ \E i \in 1..Len(wk[c].sgl) :
         /\ wk[c].sgl[i].b = 0
         /\ wk[c].sgl[i].order = PAGE_REPORTING_MIN_ORDER + 1
         /\ wk[c].sgl[i].length = 2 * (2 ^ PAGE_REPORTING_MIN_ORDER)
    /\ BitNr(1) \in wk[c].snap
    /\ blocks[wk[c].z][1].st = "tail"

(* ----------------------- the scan under fair scheduling ----------------- *)
\* the steps of a free path that is inside the hook
HookSteps ==
  \/ \E z \in Zones : enqueue_bitmap_set_bit(z)
  \/ \E z \in Zones : enqueue_atomic_inc(z)
  \/ \E z \in Zones : enqueue_threshold(z)
  \/ \E z \in Zones : enqueue_set_active(z)
  \/ \E z \in Zones : enqueue_schedule_work(z)

\* The work function keeps running once started and its callback returns; a
\* free path that has taken zone->lock runs through the hook and drops the
\* lock.
SpecMarkFair == SpecMark /\ WF_vars(Worker) /\ WF_vars(HookSteps)

\* the worker of c is inside scan_zone_bitmap()
InScan(c) ==
  /\ work[c].nrun > 0
  /\ wk[c].pc \in {"find", "check", "order", "isolate", "test", "undo",
                   "clear", "dec", "report", "return", "tail"}

NHintBits == 3

MaxIter == 4

HintBits == 0 .. (NHintBits - 1)

\* find_next_bit(bitmap, nbits, start): the lowest set bit at or behind
\* start, nbits when there is none
find_next_bit(bitmap, nbits, start) ==
  IF \E b \in bitmap : b >= start /\ b < nbits
  THEN CHOOSE b \in bitmap :
         /\ b >= start /\ b < nbits
         /\ \A o \in bitmap : (o >= start /\ o < nbits) => b <= o
  ELSE nbits

\* the state a call of scan_hinting_bitmap() starts in: any bitmap content,
\* any set of online pages, any set of pages free at a hintable order
InitHinting ==
  /\ ReportingOff
  /\ hinting_config = [pc |-> "off"]
  /\ index_map = [pc |-> "off"]
  /\ aerator = [pc |-> "off"]
  /\ aerator_work = [pc |-> "off"]
  /\ \E bitmap \in SUBSET HintBits, online \in SUBSET HintBits,
        buddy \in SUBSET HintBits :
       hinting_cb = [pc |-> "prepare", bitmap |-> bitmap, nbits |-> NHintBits,
                     online |-> online, buddy |-> buddy,
                     cnt |-> 0, free_mem_cnt |-> Cardinality(bitmap),
                     start |-> 0, set_bit |-> 0, ret |-> 0, scan_cnt |-> 0,
                     hinted |-> {}, iter |-> 0]

\* lines 181-183: ret = hcb->prepare(); if (!ret) return;
scan_hinting_bitmap_prepare ==
  /\ hinting_cb.pc = "prepare"
  /\ \E ret \in {0, 1} :
       hinting_cb' = [hinting_cb EXCEPT !.ret = ret,
                        !.pc = IF ret = 0 THEN "done" ELSE "loop"]
  /\ UNCHANGED <<reporting, hinting_config, index_map, aerator, aerator_work>>

\* the search position the loop continues with when the page of the bit it
\* found is offline: `continue' leaves start as it is (lines 190-193)
StartAfterOffline(h, bit) == h.start

\* lines 184-193: the head of one pass of for (;;): find_next_bit() from
\* start, break at nbits, `continue' when pfn_to_online_page() returns NULL
scan_hinting_bitmap_find ==
  /\ hinting_cb.pc = "loop"
  /\ hinting_cb.iter < MaxIter
  /\ LET h == hinting_cb
         bit == find_next_bit(h.bitmap, h.nbits, h.start)
     IN  hinting_cb' =
           IF bit >= h.nbits
           THEN [h EXCEPT !.ret = 0, !.set_bit = bit, !.pc = "cleanup",
                          !.iter = @ + 1]
           ELSE IF bit \notin h.online
           THEN [h EXCEPT !.ret = 0, !.set_bit = bit,
                          !.start = StartAfterOffline(h, bit),
                          !.iter = @ + 1]
           ELSE [h EXCEPT !.ret = 0, !.set_bit = bit, !.pc = "locked"]
  /\ UNCHANGED <<reporting, hinting_config, index_map, aerator, aerator_work>>

\* lines 196-204, under zone->lock: isolate the page when it is PageBuddy at
\* a hintable order (__isolate_free_page() can fail on the watermark), then
\* clear_bit()
scan_hinting_bitmap_isolate ==
  /\ hinting_cb.pc = "locked"
  /\ LET h == hinting_cb
     IN  \E ok \in {0, 1} :
           /\ ok = 1 => h.set_bit \in h.buddy
           /\ hinting_cb' =
                [h EXCEPT !.ret = ok,
                          !.buddy = IF ok = 1 THEN @ \ {h.set_bit} ELSE @,
                          !.bitmap = @ \ {h.set_bit},
                          !.pc = "hint"]
  /\ UNCHANGED <<reporting, hinting_config, index_map, aerator, aerator_work>>

\* lines 205-212: hint the page when it was isolated, then
\* start = set_bit + 1; scan_cnt++
scan_hinting_bitmap_hint ==
  /\ hinting_cb.pc = "hint"
  /\ LET h == hinting_cb
     IN  hinting_cb' =
           [h EXCEPT !.hinted = IF h.ret /= 0 THEN @ \cup {h.set_bit} ELSE @,
                     !.start = h.set_bit + 1,
                     !.scan_cnt = @ + 1,
                     !.iter = @ + 1,
                     !.pc = "loop"]
  /\ UNCHANGED <<reporting, hinting_config, index_map, aerator, aerator_work>>

\* lines 214-217: hcb->cleanup(), then the counter is corrected when the scan
\* met more bits than were counted
scan_hinting_bitmap_cleanup ==
  /\ hinting_cb.pc = "cleanup"
  /\ LET h == hinting_cb
     IN  hinting_cb' =
           [h EXCEPT !.cnt = IF h.scan_cnt > h.free_mem_cnt
                             THEN @ - (h.scan_cnt - h.free_mem_cnt) ELSE @,
                     !.pc = "done"]
  /\ UNCHANGED <<reporting, hinting_config, index_map, aerator, aerator_work>>

NextHinting ==
  \/ scan_hinting_bitmap_prepare
  \/ scan_hinting_bitmap_find
  \/ scan_hinting_bitmap_isolate
  \/ scan_hinting_bitmap_hint
  \/ scan_hinting_bitmap_cleanup

SpecHinting == InitHinting /\ [][NextHinting]_vars

\* a pass of the loop of scan_hinting_bitmap() has come back to its head
HintingPassEnds ==
  /\ hinting_cb.pc \in {"loop", "hint"}
  /\ hinting_cb'.pc = "loop"
  /\ hinting_cb'.iter > hinting_cb.iter

\* C34: scan_hinting_bitmap terminates for every bitmap content: every pass
\* of its loop either stops (break at nbits) or comes back to the head with
\* the search position behind the bit it found, also when the page of that
\* bit is offline.
C34_PassStopsOrAdvances ==
  [][HintingPassEnds => hinting_cb'.start > hinting_cb'.set_bit]_vars

(***************************************************************************)
(* The page_hinting_config variant: mm/page_hinting.c,                     *)
(* scan_zone_free_area(phconf, zone_idx). One zone's free_area entry, the  *)
(* pages its bits stand for and the locals of one call of the scan.        *)
(***************************************************************************)
PAGE_HINTING_MIN_ORDER == 1

NFaBits == 2

FaMaxPages == 2

FaBits == 0 .. (NFaBits - 1)

\* the orders a page can have in the allocator: one below the minimum, the
\* minimum, one above it
FaOrders == (PAGE_HINTING_MIN_ORDER - 1) .. (PAGE_HINTING_MIN_ORDER + 1)

\* a local that was declared without an initializer and not yet assigned
UNINIT == -1

\* `int order, ret' (line 519): the values a read of the local can produce.
\* Before the first assignment the read is of an indeterminate value.
ReadLocal(v, values) == IF v = UNINIT THEN values ELSE {v}

FaPages == [buddy : BOOLEAN, order : FaOrders, iso : BOOLEAN]

\* no block was found free and isolated in the current pass
NotIsolated == -1

InitFreeArea ==
  /\ ReportingOff
  /\ hinting_cb = [pc |-> "off"]
  /\ index_map = [pc |-> "off"]
  /\ aerator = [pc |-> "off"]
  /\ aerator_work = [pc |-> "off"]
  /\ \E bitmap \in SUBSET FaBits, online \in SUBSET FaBits,
        pages \in [FaBits -> {p \in FaPages : ~p.iso}] :
       hinting_config =
         [pc |-> "loop", bitmap |-> bitmap, nbits |-> NFaBits,
          free_pages |-> Cardinality(bitmap),
          online |-> online, pages |-> pages,
          order |-> UNINIT, ret |-> UNINIT, isolated_cnt |-> 0,
          setbit |-> 0, pos |-> 0, sg |-> <<>>,
          isolated_at |-> NotIsolated, hinted |-> 0]

\* lines 527-531: for_each_set_bit() and the offline `continue'
scan_zone_free_area_find ==
  /\ hinting_config.pc = "loop"
  /\ LET h == hinting_config
         bit == find_next_bit(h.bitmap, h.nbits, h.pos)
     IN  hinting_config' =
           IF bit >= h.nbits
           THEN [h EXCEPT !.setbit = bit, !.pc = "tail",
                          !.isolated_at = NotIsolated]
           ELSE IF bit \notin h.online
           THEN [h EXCEPT !.setbit = bit, !.pos = bit + 1,
                          !.isolated_at = NotIsolated]
           ELSE [h EXCEPT !.setbit = bit, !.pos = bit + 1, !.pc = "locked",
                          !.isolated_at = NotIsolated]
  /\ UNCHANGED <<reporting, hinting_cb, index_map, aerator, aerator_work>>

\* lines 533-543, under zone->lock: order and ret are assigned only when the
\* page is PageBuddy at PAGE_HINTING_MIN_ORDER or above;
\* __isolate_free_page() returns 0 when the watermark check fails
scan_zone_free_area_isolate ==
  /\ hinting_config.pc = "locked"
  /\ LET h == hinting_config
         page == h.pages[h.setbit]
         cleared == [h EXCEPT !.bitmap = @ \ {h.setbit},
                              !.free_pages = @ - 1,
                              !.pc = "append"]
     IN  IF page.buddy /\ page.order >= PAGE_HINTING_MIN_ORDER
         THEN \E ok \in {0, 1} :
                hinting_config' =
                  [cleared EXCEPT
                     !.order = page.order,
                     !.ret = ok,
                     !.isolated_at = IF ok = 1 THEN page.order
                                     ELSE NotIsolated,
                     !.pages[h.setbit] =
                        IF ok = 1 THEN [@ EXCEPT !.buddy = FALSE, !.iso = TRUE]
                        ELSE @]
         ELSE hinting_config' = cleared
  /\ UNCHANGED <<reporting, hinting_cb, index_map, aerator, aerator_work>>

\* release_isolated_pages() (lines 475-488): every page of the table goes
\* back to the allocator at the order found in page_private()
release_isolated_pages(pages, sg) ==
  [b \in DOMAIN pages |->
     IF \E i \in 1 .. Len(sg) : sg[i].bit = b
     THEN [buddy |-> TRUE, order |-> pages[b].order, iso |-> FALSE]
     ELSE pages[b]]

\* lines 545-567: if (ret) the page gets page_private = order and one entry
\* of PAGE_SIZE << order, and a full table is hinted and released; then
\* ret = 0
scan_zone_free_area_append ==
  /\ hinting_config.pc = "append"
  /\ LET h == hinting_config
     IN  \E ret \in ReadLocal(h.ret, {0, 1}) :
           IF ret /= 0
           THEN \E order \in ReadLocal(h.order, FaOrders) :
                  LET sg == Append(h.sg, [bit |-> h.setbit, order |-> order])
                      pages == [h.pages EXCEPT ![h.setbit].order = order]
                  IN  IF h.isolated_cnt + 1 = FaMaxPages
                      THEN hinting_config' =
                             [h EXCEPT !.sg = <<>>, !.isolated_cnt = 0,
                                       !.hinted = @ + Len(sg),
                                       !.pages =
                                          release_isolated_pages(pages, sg),
                                       !.ret = 0, !.pc = "loop"]
                      ELSE hinting_config' =
                             [h EXCEPT !.sg = sg, !.isolated_cnt = @ + 1,
                                       !.pages = pages,
                                       !.ret = 0, !.pc = "loop"]
           ELSE hinting_config' = [h EXCEPT !.ret = 0, !.pc = "loop"]
  /\ UNCHANGED <<reporting, hinting_cb, index_map, aerator, aerator_work>>

\* lines 572-577: a partial table is hinted and released
scan_zone_free_area_tail ==
  /\ hinting_config.pc = "tail"
  /\ LET h == hinting_config
     IN  hinting_config' =
           IF h.isolated_cnt /= 0
           THEN [h EXCEPT !.sg = <<>>, !.hinted = @ + Len(h.sg),
                          !.pages = release_isolated_pages(h.pages, h.sg),
                          !.pc = "done"]
           ELSE [h EXCEPT !.pc = "done"]
  /\ UNCHANGED <<reporting, hinting_cb, index_map, aerator, aerator_work>>

NextFreeArea ==
  \/ scan_zone_free_area_find
  \/ scan_zone_free_area_isolate
  \/ scan_zone_free_area_append
  \/ scan_zone_free_area_tail

SpecFreeArea == InitFreeArea /\ [][NextFreeArea]_vars

\* this step of scan_zone_free_area() puts an entry into the table
FaAppends ==
  /\ hinting_config.pc = "append"
  /\ hinting_config'.isolated_cnt + hinting_config'.hinted
       > hinting_config.isolated_cnt + hinting_config.hinted

\* C35: scan_zone_free_area appends a block to the batch only if in that
\* same pass the block was found free at order >= PAGE_HINTING_MIN_ORDER and
\* its isolation succeeded, in every pass including the first, and the order
\* of the entry (the block's page_private afterwards) is the order at which
\* the block was isolated.
C35_AppendsOnlyIsolated ==
  [][FaAppends =>
       /\ hinting_config.isolated_at /= NotIsolated
       /\ hinting_config.isolated_at >= PAGE_HINTING_MIN_ORDER
       /\ hinting_config'.pages[hinting_config.setbit].order
            = hinting_config.isolated_at]_vars

(***************************************************************************)
(* The index mapping of mm/page_reporting.c: zone_bitmap_alloc() sizes the *)
(* bitmap of a zone, bitmap_set_bit() maps a page to a bit and             *)
(* scan_zone_bitmap() maps a bit back to a page. The arithmetic is that of *)
(* unsigned long, here BITS_PER_LONG bits wide.                            *)
(***************************************************************************)
BITS_PER_LONG == 5

MaxPfn == 9

MaxMarks == 2

Pfns == 0 .. MaxPfn

\* unsigned long arithmetic
ulong(n) == n % (2 ^ BITS_PER_LONG)

\* x >> PAGE_REPORTING_MIN_ORDER and x << PAGE_REPORTING_MIN_ORDER
shr_min_order(x) == x \div (2 ^ PAGE_REPORTING_MIN_ORDER)

shl_min_order(x) == ulong(x * (2 ^ PAGE_REPORTING_MIN_ORDER))

\* line 73: bitnr = (pfn - rbitmap->base_pfn) >> PAGE_REPORTING_MIN_ORDER
bitnr_of(pfn, base_pfn) == shr_min_order(ulong(pfn - base_pfn))

\* lines 140-141: (setbit << PAGE_REPORTING_MIN_ORDER) + rbitmap->base_pfn
pfn_of(setbit, base_pfn) == ulong(shl_min_order(setbit) + base_pfn)

\* lines 305-306: bitmap_size = (pages >> PAGE_REPORTING_MIN_ORDER) + 1
bitmap_size(base_pfn, end_pfn) ==
  ulong(shr_min_order(ulong(end_pfn - base_pfn)) + 1)

\* the head pfn of a block of order PAGE_REPORTING_MIN_ORDER or above: the
\* pages the free path hands to the hook
BlockHeads == {p \in Pfns : p % (2 ^ PAGE_REPORTING_MIN_ORDER) = 0}

\* zone_reporting_init() has read zone_start_pfn and zone_end_pfn of a
\* populated zone (lines 349-351) and is about to call zone_bitmap_alloc()
InitIndex ==
  /\ ReportingOff
  /\ hinting_cb = [pc |-> "off"]
  /\ hinting_config = [pc |-> "off"]
  /\ aerator = [pc |-> "off"]
  /\ aerator_work = [pc |-> "off"]
  /\ \E base_pfn \in Pfns, end_pfn \in Pfns :
       /\ base_pfn < end_pfn
       /\ index_map = [pc |-> "alloc", base_pfn |-> base_pfn,
                       end_pfn |-> end_pfn, nbits |-> 0, bitmap |-> {},
                       allocated |-> FALSE, free_pages |-> 0,
                       marks |-> {}, scanned |-> {}]

\* zone_bitmap_alloc() (lines 301-317)
index_zone_bitmap_alloc ==
  /\ index_map.pc = "alloc"
  /\ LET m == index_map
         size == bitmap_size(m.base_pfn, m.end_pfn)
     IN  IF size = 0
         THEN index_map' = [m EXCEPT !.pc = "ready"]
         ELSE \E ok \in BOOLEAN :
                index_map' =
                  IF ok
                  THEN [m EXCEPT !.nbits = size, !.allocated = TRUE,
                                 !.pc = "ready"]
                  ELSE [m EXCEPT !.pc = "enomem"]
  /\ UNCHANGED <<reporting, hinting_cb, hinting_config, aerator, aerator_work>>

\* bitmap_set_bit() (lines 64-81) for the page at pfn. marks remembers each
\* call: the pfn, the index computed and whether the call changed the
\* bitmap and the counter.
index_bitmap_set_bit(pfn) ==
  /\ index_map.pc = "ready"
  /\ Cardinality(index_map.marks) < MaxMarks
  /\ LET m == index_map
         bitnr == bitnr_of(pfn, m.base_pfn)
         sets == m.allocated /\ bitnr < m.nbits /\ bitnr \notin m.bitmap
     IN  index_map' =
           [m EXCEPT !.bitmap = IF sets THEN @ \cup {bitnr} ELSE @,
                     !.free_pages = IF sets THEN @ + 1 ELSE @,
                     !.marks = @ \cup {[pfn |-> pfn, bitnr |-> bitnr,
                                        valid |-> m.allocated
                                                  /\ bitnr < m.nbits,
                                        changed |-> sets]}]
  /\ UNCHANGED <<reporting, hinting_cb, hinting_config, aerator, aerator_work>>

\* one pass of for_each_set_bit() in scan_zone_bitmap(): the page is looked
\* up at the pfn derived from the bit (lines 138-141), the bit is cleared
\* and the counter decremented (lines 145-146 or 161-162)
index_scan_zone_bitmap ==
  /\ index_map.pc = "ready"
  /\ index_map.bitmap /= {}
  /\ LET m == index_map
         setbit == find_next_bit(m.bitmap, m.nbits, 0)
     IN  index_map' =
           [m EXCEPT !.bitmap = @ \ {setbit},
                     !.free_pages = @ - 1,
                     !.scanned = @ \cup {[setbit |-> setbit,
                                          pfn |-> pfn_of(setbit, m.base_pfn)]}]
  /\ UNCHANGED <<reporting, hinting_cb, hinting_config, aerator, aerator_work>>

NextIndex ==
  \/ index_zone_bitmap_alloc
  \/ \E pfn \in BlockHeads : index_bitmap_set_bit(pfn)
  \/ index_scan_zone_bitmap

SpecIndex == InitIndex /\ [][NextIndex]_vars

\* the pfn lies in the region [base_pfn, end_pfn) of the zone
InRegion(pfn) == index_map.base_pfn <= pfn /\ pfn < index_map.end_pfn

\* C36: the index mapping round-trips for every base_pfn: a block head pfn
\* in [base_pfn, end_pfn) is mapped to an index below nbits, two such blocks
\* to two indices, and the pfn the scanner derives from the index is the
\* block's head pfn; a pfn outside the region, also one below base_pfn where
\* the subtraction wraps, sets no bit and changes no counter.
C36_IndexRoundTrip ==
  /\ \A m \in index_map.marks :
       InRegion(m.pfn) =>
         /\ m.valid
         /\ index_map.base_pfn + m.bitnr * (2 ^ PAGE_REPORTING_MIN_ORDER)
              = m.pfn
         /\ \A o \in index_map.marks :
              (InRegion(o.pfn) /\ o.pfn /= m.pfn) => o.bitnr /= m.bitnr
  /\ \A m \in index_map.marks : ~InRegion(m.pfn) => ~m.changed
  /\ \A s \in index_map.scanned :
       \A m \in index_map.marks :
         (InRegion(m.pfn) /\ m.bitnr = s.setbit) => s.pfn = m.pfn

\* a free path has set PAGE_REPORTING_ACTIVE of configuration c (line 262)
\* and is about to call schedule_work() (line 263)
AboutToSchedule(c) ==
  \E z \in Zones : hook[z].pc = "e_sched" /\ hook[z].cfg = c

\* C37: whenever PAGE_REPORTING_ACTIVE of the published configuration is
\* set, its work item is queued or running (or the free path that set the
\* flag is at its schedule_work() call); and every successful
\* page_reporting_enable() publishes the configuration with
\* PAGE_REPORTING_ACTIVE clear and no work item queued, whatever enable and
\* disable calls the configuration object went through before.
C37_BusyHasWorker ==
  /\ [](\A c \in Configs :
          (page_reporting_conf = c /\ phconf[c].flags) =>
            (work[c].pending \/ work[c].nrun > 0 \/ AboutToSchedule(c)))
  /\ [][\A c \in Configs :
          (page_reporting_conf /= c /\ page_reporting_conf' = c) =>
            (~phconf'[c].flags /\ ~work'[c].pending)]_vars

(***************************************************************************)
(* The aerator variant: mm/aeration.c. The record aerator holds the        *)
(* file-scope objects (a_dev_info, aerator_hwm, aerator_notify_enabled),   *)
(* the registered device (refcnt, batch_reactor), the zones and the        *)
(* threads that run the file's functions.                                  *)
(***************************************************************************)
NAZones == 2

MaxStartups == 3

MaxRawFrees == 3

AZones == 0 .. (NAZones - 1)

ADevs == {"devA", "devB"}

\* a_dev_info->capacity: the number of pages the batch reactor takes
ACapacity == 1

\* the threads that can run aerator code: the free path of each zone
\* (__aerator_notify() under zone->lock) and the device's completion path
\* (aerator_cycle())
AThreads == AZones \cup {NAZones}

ADevThread == NAZones

IdleACaller == [pc |-> "idle", sdev |-> NULL, ret |-> "none", calls |-> 0,
                entry |-> [a_dev_info |-> NULL, aerator_hwm |-> FALSE,
                           key |-> 0]]

IdleAThread == [pc |-> "idle", budget |-> 0, nr |-> 0, cleared |-> FALSE,
                zone |-> 0]

\* aeration.c before any aerator_startup(): lines 9-11
AeratorOff ==
  [pc |-> "on",
   a_dev_info |-> NULL, aerator_hwm |-> FALSE, hwm |-> {}, key |-> 0,
   refcnt |-> 0, batch |-> 0, reacting |-> FALSE,
   raw |-> [z \in AZones |-> 0], lock |-> [z \in AZones |-> FALSE],
   th |-> [t \in AThreads |-> IdleAThread],
   caller |-> IdleACaller,
   frees |-> 0, bug |-> {}]

\* what aerator_startup() and aerator_shutdown() leave behind
AeratorRegistration ==
  [a_dev_info |-> aerator.a_dev_info, aerator_hwm |-> aerator.aerator_hwm,
   key |-> aerator.key]

\* static_key_slow_inc() and static_key_slow_dec() on the key's count
static_key_slow_inc(key) == key + 1

static_key_slow_dec(key) == key - 1

InitStartup ==
  /\ ReportingOff
  /\ hinting_cb = [pc |-> "off"]
  /\ hinting_config = [pc |-> "off"]
  /\ index_map = [pc |-> "off"]
  /\ aerator_work = [pc |-> "off"]
  /\ aerator = AeratorOff

\* aerator_startup(sdev), lines 32-33: -EBUSY when a device or a bitmap is
\* there
aerator_startup_check(sdev) ==
  /\ aerator.caller.pc = "idle"
  /\ aerator.caller.calls < MaxStartups
  /\ LET busy == aerator.a_dev_info /= NULL \/ aerator.aerator_hwm
     IN  aerator' =
           [aerator EXCEPT
              !.caller = [pc |-> IF busy THEN "return" ELSE "s_set",
                          sdev |-> sdev,
                          ret |-> IF busy THEN "-EBUSY" ELSE "none",
                          calls |-> @.calls + 1,
                          entry |-> AeratorRegistration]]
  /\ UNCHANGED <<reporting, hinting_cb, hinting_config, index_map,
                 aerator_work>>

\* lines 35-37: a_dev_info = sdev; atomic_set(&sdev->refcnt, 0)
aerator_startup_set ==
  /\ aerator.caller.pc = "s_set"
  /\ aerator' = [aerator EXCEPT !.a_dev_info = aerator.caller.sdev,
                                !.refcnt = 0,
                                !.caller.pc = "s_alloc"]
  /\ UNCHANGED <<reporting, hinting_cb, hinting_config, index_map,
                 aerator_work>>

\* lines 39-43: hwm = kzalloc(); on failure aerator_shutdown() is called
aerator_startup_kzalloc ==
  /\ aerator.caller.pc = "s_alloc"
  /\ \E ok \in BOOLEAN :
       aerator' = [aerator EXCEPT
                     !.caller.pc = IF ok THEN "s_publish" ELSE "d_dec",
                     !.caller.ret = IF ok THEN "none" ELSE "-ENOMEM"]
  /\ UNCHANGED <<reporting, hinting_cb, hinting_config, index_map,
                 aerator_work>>

\* lines 45-49: aerator_hwm = hwm; static_key_slow_inc(); return 0
aerator_startup_publish ==
  /\ aerator.caller.pc = "s_publish"
  /\ aerator' = [aerator EXCEPT !.aerator_hwm = TRUE, !.hwm = {},
                                !.key = static_key_slow_inc(@),
                                !.caller.pc = "return",
                                !.caller.ret = "0"]
  /\ UNCHANGED <<reporting, hinting_cb, hinting_config, index_map,
                 aerator_work>>

\* aerator_shutdown() called by the driver that registered the device
aerator_shutdown_call ==
  /\ aerator.caller.pc = "idle"
  /\ aerator.caller.calls < MaxStartups
  /\ aerator.a_dev_info /= NULL
  /\ aerator' = [aerator EXCEPT
                   !.caller = [pc |-> "d_dec", sdev |-> aerator.a_dev_info,
                               ret |-> "void", calls |-> @.calls + 1,
                               entry |-> AeratorRegistration]]
  /\ UNCHANGED <<reporting, hinting_cb, hinting_config, index_map,
                 aerator_work>>

\* aerator_shutdown(), line 15: static_key_slow_dec()
aerator_shutdown_dec ==
  /\ aerator.caller.pc = "d_dec"
  /\ aerator' = [aerator EXCEPT !.key = static_key_slow_dec(@),
                                !.caller.pc = "d_wait"]
  /\ UNCHANGED <<reporting, hinting_cb, hinting_config, index_map,
                 aerator_work>>

\* lines 17-18: while (atomic_read(&a_dev_info->refcnt)) msleep(20)
aerator_shutdown_wait ==
  /\ aerator.caller.pc = "d_wait"
  /\ aerator.refcnt = 0
  /\ aerator' = [aerator EXCEPT !.caller.pc = "d_free"]
  /\ UNCHANGED <<reporting, hinting_cb, hinting_config, index_map,
                 aerator_work>>

\* lines 20-23: kfree(aerator_hwm); aerator_hwm = NULL; a_dev_info = NULL
aerator_shutdown_free ==
  /\ aerator.caller.pc = "d_free"
  /\ aerator' = [aerator EXCEPT !.aerator_hwm = FALSE, !.hwm = {},
                                !.a_dev_info = NULL,
                                !.caller.pc = "return"]
  /\ UNCHANGED <<reporting, hinting_cb, hinting_config, index_map,
                 aerator_work>>

\* the call returns to the driver
aerator_return ==
  /\ aerator.caller.pc = "return"
  /\ aerator' = [aerator EXCEPT !.caller.pc = "idle"]
  /\ UNCHANGED <<reporting, hinting_cb, hinting_config, index_map,
                 aerator_work>>

NextStartup ==
  \/ \E sdev \in ADevs : aerator_startup_check(sdev)
  \/ aerator_startup_set
  \/ aerator_startup_kzalloc
  \/ aerator_startup_publish
  \/ aerator_shutdown_call
  \/ aerator_shutdown_dec
  \/ aerator_shutdown_wait
  \/ aerator_shutdown_free
  \/ aerator_return

SpecStartup == InitStartup /\ [][NextStartup]_vars

\* C39: aerator_startup is all-or-nothing: when it returns -EBUSY or
\* -ENOMEM, the registered device, the bitmap pointer and the count of
\* aerator_notify_enabled are what they were when it was called; after
\* -ENOMEM no device is registered and the key is disabled as before.
C39_StartupAllOrNothing ==
  (aerator.caller.pc = "return"
   /\ aerator.caller.ret \in {"-EBUSY", "-ENOMEM"})
    => AeratorRegistration = aerator.caller.entry

(* -------------------- the aerator at run time -------------------------- *)
\* a device is registered: aerator_startup() returned 0. The zones hold the
\* raw pages that were freed before, each below the threshold of
\* __aerator_notify().
InitAerator ==
  /\ ReportingOff
  /\ hinting_cb = [pc |-> "off"]
  /\ hinting_config = [pc |-> "off"]
  /\ index_map = [pc |-> "off"]
  /\ aerator_work = [pc |-> "off"]
  /\ \E raw \in [AZones -> 0 .. ACapacity] :
       aerator = [AeratorOff EXCEPT !.a_dev_info = "devA",
                                    !.aerator_hwm = TRUE,
                                    !.key = 1,
                                    !.raw = raw]

AMin(a, b) == IF a < b THEN a ELSE b

\* __aerator_fill(zone, size), lines 68-118, with one free area of raw
\* pages per zone: the pages pulled into the batch reactor
aerator_pulled(raw, size) == AMin(raw, size)

\* __aerator_fill(): `return size' at line 97 leaves before the test of
\* line 124; otherwise the area was drained, nr_raw is below capacity and
\* the bit is cleared (lines 124-129)
aerator_fill_clears(raw, size) ==
  aerator_pulled(raw, size) < size /\ raw - aerator_pulled(raw, size) < ACapacity

AUnchanged ==
  UNCHANGED <<reporting, hinting_cb, hinting_config, index_map, aerator_work>>

\* __aerator_notify() returns before set_bit(): fewer than 2 * capacity raw
\* pages (lines 298-299) or the bit is set (lines 310-311)
aerator_notify_returns_untested(raw, z) == raw < 2 * ACapacity

aerator_notify_returns(raw, z) == raw < 2 * ACapacity \/ z \in aerator.hwm

\* a page of zone z is freed raw under zone->lock and the free path calls
\* __aerator_notify() (lines 298-312): return below 2 * capacity, return
\* when the bit is set, else set_bit()
aerator_notify(z) ==
  /\ aerator.key > 0
  /\ aerator.th[z].pc = "idle"
  /\ ~aerator.lock[z]
  /\ aerator.frees < MaxRawFrees
  /\ LET raw == aerator.raw[z] + 1
         a == [aerator EXCEPT !.raw[z] = raw, !.frees = @ + 1]
     IN  aerator' =
           IF aerator_notify_returns(raw, z)
           THEN a
           ELSE [a EXCEPT !.hwm = @ \cup {z}, !.lock[z] = TRUE,
                          !.th[z].pc = "n_inc"]
  /\ AUnchanged

\* a raw page of zone z is allocated under zone->lock
aerator_alloc(z) ==
  /\ ~aerator.lock[z]
  /\ aerator.raw[z] > 0
  /\ aerator' = [aerator EXCEPT !.raw[z] = @ - 1]
  /\ AUnchanged

\* __aerator_notify(), lines 314-317: atomic_fetch_inc(); on 0 the caller
\* enters __aerator_fill_and_react() and its BUG_ON (line 253)
aerator_notify_fetch_inc(z) ==
  /\ aerator.th[z].pc = "n_inc"
  /\ aerator' =
       IF aerator.refcnt /= 0
       THEN [aerator EXCEPT !.refcnt = @ + 1, !.lock[z] = FALSE,
                            !.th[z] = IdleAThread]
       ELSE [aerator EXCEPT !.refcnt = @ + 1, !.th[z].pc = "fr_inc",
                            !.bug = IF aerator.batch /= 0
                                    THEN @ \cup {"BUG_ON253"} ELSE @]
  /\ AUnchanged

\* __aerator_fill_and_react(), line 262: atomic_inc()
aerator_notify_react_inc(z) ==
  /\ aerator.th[z].pc = "fr_inc"
  /\ aerator' = [aerator EXCEPT !.refcnt = @ + 1, !.th[z].pc = "fr_fill"]
  /\ AUnchanged

\* line 264: __aerator_fill(zone, capacity). zone->lock has been held
\* since __aerator_notify() saw 2 * capacity raw pages, so the reactor is
\* filled and line 97 returns; clear_bit() and atomic_dec() (lines 127-128)
\* are not reached from here.
aerator_notify_react_fill(z) ==
  /\ aerator.th[z].pc = "fr_fill"
  /\ LET raw == aerator.raw[z]
         n == aerator_pulled(raw, ACapacity)
         clears == aerator_fill_clears(raw, ACapacity)
     IN  aerator' = [aerator EXCEPT
                       !.raw[z] = raw - n,
                       !.batch = @ + n,
                       !.hwm = IF clears THEN @ \ {z} ELSE @,
                       !.refcnt = IF clears THEN @ - 1 ELSE @,
                       !.th[z].pc = "fr_test"]
  /\ AUnchanged

\* __aerator_fill_and_react(), lines 266-289: with an empty reactor
\* atomic_dec_and_test() and return or aerator_fill_and_react(); else
\* react(). zone->lock is dropped for both and taken again at the end.
aerator_notify_react_test(z) ==
  /\ aerator.th[z].pc = "fr_test"
  /\ aerator' =
       IF aerator.batch = 0
       THEN IF aerator.refcnt - 1 = 0
            THEN [aerator EXCEPT !.refcnt = @ - 1, !.lock[z] = FALSE,
                                 !.th[z] = IdleAThread]
            ELSE [aerator EXCEPT !.refcnt = @ - 1, !.lock[z] = FALSE,
                                 !.th[z].pc = "far_entry"]
       ELSE [aerator EXCEPT !.lock[z] = FALSE, !.reacting = TRUE,
                            !.th[z] = IdleAThread]
  /\ AUnchanged

\* aerator_fill_and_react(), lines 153-161: budget = capacity and the BUG_ON
aerator_fill_and_react_entry(t) ==
  /\ aerator.th[t].pc = "far_entry"
  /\ aerator' = [aerator EXCEPT
                   !.th[t].budget = ACapacity,
                   !.th[t].pc = "far_inc",
                   !.bug = IF aerator.batch /= 0
                           THEN @ \cup {"BUG_ON161"} ELSE @]
  /\ AUnchanged

\* retry: atomic_inc() (line 170); for_each_set_bit() starts over
aerator_fill_and_react_inc(t) ==
  /\ aerator.th[t].pc = "far_inc"
  /\ aerator' = [aerator EXCEPT !.refcnt = @ + 1, !.th[t].nr = 0,
                                !.th[t].pc = "far_scan"]
  /\ AUnchanged

\* for_each_set_bit(nr, aerator_hwm, AERATOR_HWM_BITS) (line 172)
aerator_fill_and_react_scan(t) ==
  /\ aerator.th[t].pc = "far_scan"
  /\ LET nr == find_next_bit(aerator.hwm, NAZones, aerator.th[t].nr)
     IN  aerator' =
           IF nr >= NAZones
           THEN [aerator EXCEPT !.th[t].pc = "far_end"]
           ELSE [aerator EXCEPT !.th[t].zone = nr, !.th[t].nr = nr + 1,
                                !.th[t].pc = "far_fill"]
  /\ AUnchanged

\* aerator_fill() (lines 134-149): zone->lock, then __aerator_fill(zone,
\* budget) up to clear_bit()
aerator_fill_and_react_fill(t) ==
  /\ aerator.th[t].pc = "far_fill"
  /\ LET z == aerator.th[t].zone
         raw == aerator.raw[z]
         size == aerator.th[t].budget
         n == aerator_pulled(raw, size)
         clears == aerator_fill_clears(raw, size)
     IN  /\ ~aerator.lock[z]
         /\ aerator' = [aerator EXCEPT
                          !.lock[z] = TRUE,
                          !.raw[z] = raw - n,
                          !.batch = @ + n,
                          !.hwm = IF clears THEN @ \ {z} ELSE @,
                          !.th[t].budget = size - n,
                          !.th[t].cleared = clears,
                          !.th[t].pc = "far_dec"]
  /\ AUnchanged

\* __aerator_fill(), line 128: atomic_dec() when the bit was cleared; the
\* lock is dropped and the budget tested (lines 146, 176-178)
aerator_fill_and_react_dec(t) ==
  /\ aerator.th[t].pc = "far_dec"
  /\ LET z == aerator.th[t].zone
     IN  aerator' = [aerator EXCEPT
                       !.refcnt = IF aerator.th[t].cleared THEN @ - 1 ELSE @,
                       !.lock[z] = FALSE,
                       !.th[t].cleared = FALSE,
                       !.th[t].pc = IF aerator.th[t].budget = 0
                                    THEN "far_react" ELSE "far_scan"]
  /\ AUnchanged

\* lines 181-195: with an empty reactor atomic_dec_and_test(), then return
\* or goto retry
aerator_fill_and_react_end(t) ==
  /\ aerator.th[t].pc = "far_end"
  /\ aerator' =
       IF aerator.batch = 0
       THEN IF aerator.refcnt - 1 = 0
            THEN [aerator EXCEPT !.refcnt = @ - 1, !.th[t] = IdleAThread]
            ELSE [aerator EXCEPT !.refcnt = @ - 1, !.th[t].pc = "far_inc"]
       ELSE [aerator EXCEPT !.th[t].pc = "far_react"]
  /\ AUnchanged

\* start_aerating: a_dev_info->react(a_dev_info) (line 198)
aerator_fill_and_react_react(t) ==
  /\ aerator.th[t].pc = "far_react"
  /\ aerator' = [aerator EXCEPT
                   !.reacting = TRUE,
                   !.th[t] = IdleAThread,
                   !.bug = IF aerator.batch = 0
                           THEN @ \cup {"react_empty"} ELSE @]
  /\ AUnchanged

\* the device has processed the batch and calls aerator_cycle():
\* aerator_decant() (lines 201-220) with its WARN_ON
aerator_cycle_decant ==
  /\ aerator.reacting
  /\ aerator.th[ADevThread].pc = "idle"
  /\ aerator' = [aerator EXCEPT
                   !.reacting = FALSE,
                   !.batch = 0,
                   !.th[ADevThread].pc = "c_dec",
                   !.bug = IF aerator.batch = 0
                           THEN @ \cup {"WARN_ON211"} ELSE @]
  /\ AUnchanged

\* aerator_cycle(), lines 239-242: atomic_dec_and_test(), then return or
\* aerator_fill_and_react()
aerator_cycle_dec ==
  /\ aerator.th[ADevThread].pc = "c_dec"
  /\ aerator' =
       IF aerator.refcnt - 1 = 0
       THEN [aerator EXCEPT !.refcnt = @ - 1,
                            !.th[ADevThread] = IdleAThread]
       ELSE [aerator EXCEPT !.refcnt = @ - 1,
                            !.th[ADevThread].pc = "far_entry"]
  /\ AUnchanged

NextAerator ==
  \/ \E z \in AZones : aerator_notify(z)
  \/ \E z \in AZones : aerator_alloc(z)
  \/ \E z \in AZones : aerator_notify_fetch_inc(z)
  \/ \E z \in AZones : aerator_notify_react_inc(z)
  \/ \E z \in AZones : aerator_notify_react_fill(z)
  \/ \E z \in AZones : aerator_notify_react_test(z)
  \/ \E t \in AThreads : aerator_fill_and_react_entry(t)
  \/ \E t \in AThreads : aerator_fill_and_react_inc(t)
  \/ \E t \in AThreads : aerator_fill_and_react_scan(t)
  \/ \E t \in AThreads : aerator_fill_and_react_fill(t)
  \/ \E t \in AThreads : aerator_fill_and_react_dec(t)
  \/ \E t \in AThreads : aerator_fill_and_react_end(t)
  \/ \E t \in AThreads : aerator_fill_and_react_react(t)
  \/ aerator_cycle_decant
  \/ aerator_cycle_dec

SpecAerator == InitAerator /\ [][NextAerator]_vars

\* no thread is between the two halves of an update of the bitmap and the
\* count: set_bit() and atomic_fetch_inc(), clear_bit() and atomic_dec(),
\* dropping the cycle's reference and taking it again
AeratorQuiet ==
  \A t \in AThreads :
    aerator.th[t].pc \notin {"n_inc", "fr_inc", "far_dec",
                             "far_entry", "far_inc"}

\* the number of fill/react cycles in progress: a thread between the
\* atomic_inc() and the end of the fill, the device between react() and
\* the atomic_dec_and_test() of aerator_cycle()
AeratorCycles ==
  Cardinality({t \in AThreads :
                 aerator.th[t].pc \in {"fr_fill", "fr_test", "far_scan",
                                       "far_fill", "far_end", "far_react",
                                       "c_dec"}})
  + (IF aerator.reacting THEN 1 ELSE 0)

\* C38: whenever no aerator function is in the middle of an update, refcnt
\* is the number of zones whose high-water-mark bit is set plus one if a
\* fill/react cycle is in progress (and at most one is); refcnt is never
\* negative; the batch reactor is empty when a fill starts (no BUG_ON) and
\* non-empty when react or aerator_decant runs.
C38_RefcntCountsRequests ==
  /\ aerator.refcnt >= 0
  /\ aerator.bug = {}
  /\ AeratorQuiet =>
       /\ AeratorCycles <= 1
       /\ aerator.refcnt = Cardinality(aerator.hwm) + AeratorCycles

\* both zones have asked for aeration while the device works on a batch:
\* two bits and the cycle's reference
C38_Witness ==
  /\ AeratorQuiet
  /\ aerator.reacting
  /\ aerator.hwm = AZones
  /\ aerator.batch > 0
  /\ aerator.refcnt = NAZones + 1

(***************************************************************************)
(* The delayed-work aerator: a_dev_info (refcnt, batch), the zone flags    *)
(* ZONE_AERATION_REQUESTED and ZONE_AERATION_ACTIVE, the delayed work      *)
(* aerator_work that runs aerator_cycle(), and the free paths that call    *)
(* aerator_notify_free().                                                  *)
(***************************************************************************)
AERATOR_HWM == 2

IdleDwWorker == [pc |-> "idle", zone |-> 0, refcnt |-> 0]

\* a device is registered and the key is enabled; no zone has asked for
\* aeration and each zone holds raw pages below AERATOR_HWM. left remembers
\* the zones that had ZONE_AERATION_REQUESTED set when aerator_cycle() last
\* returned.
InitDelayed ==
  /\ ReportingOff
  /\ hinting_cb = [pc |-> "off"]
  /\ hinting_config = [pc |-> "off"]
  /\ index_map = [pc |-> "off"]
  /\ aerator = [pc |-> "off"]
  /\ \E raw \in [AZones -> 0 .. (AERATOR_HWM - 1)] :
       aerator_work =
         [pc |-> "on", refcnt |-> 0, requested |-> {}, active |-> {},
          raw |-> raw, batch |-> 0, lock |-> [z \in AZones |-> FALSE],
          scheduled |-> FALSE, w |-> IdleDwWorker,
          nt |-> [z \in AZones |-> "idle"], frees |-> 0, warn |-> FALSE,
          left |-> {}]

DwUnchanged ==
  UNCHANGED <<reporting, hinting_cb, hinting_config, index_map, aerator>>

\* aerator_notify_free(): a page of zone z is freed raw under zone->lock;
\* the screener returns when ZONE_AERATION_REQUESTED is set or the raw
\* pages are below AERATOR_HWM, else __aerator_notify() runs set_bit()
dw_aerator_notify_free(z) ==
  /\ aerator_work.nt[z] = "idle"
  /\ ~aerator_work.lock[z]
  /\ aerator_work.frees < MaxRawFrees
  /\ LET raw == aerator_work.raw[z] + 1
         a == [aerator_work EXCEPT !.raw[z] = raw, !.frees = @ + 1]
     IN  aerator_work' =
           IF z \in aerator_work.requested \/ raw < AERATOR_HWM
           THEN a
           ELSE [a EXCEPT !.requested = @ \cup {z}, !.lock[z] = TRUE,
                          !.nt[z] = "inc"]
  /\ DwUnchanged

\* a raw page of zone z is allocated under zone->lock
dw_alloc(z) ==
  /\ ~aerator_work.lock[z]
  /\ aerator_work.raw[z] > 0
  /\ aerator_work' = [aerator_work EXCEPT !.raw[z] = @ - 1]
  /\ DwUnchanged

\* __aerator_notify(): if (atomic_fetch_inc(&a_dev_info->refcnt)) return;
\* then the WARN_ON
dw_notify_fetch_inc(z) ==
  /\ aerator_work.nt[z] = "inc"
  /\ aerator_work' =
       IF aerator_work.refcnt /= 0
       THEN [aerator_work EXCEPT !.refcnt = @ + 1, !.lock[z] = FALSE,
                                 !.nt[z] = "idle"]
       ELSE [aerator_work EXCEPT !.refcnt = @ + 1, !.nt[z] = "sched",
                                 !.warn = @ \/ aerator_work.batch /= 0]
  /\ DwUnchanged

\* the value schedule_delayed_work() leaves in the work's pending state
schedule_delayed_work_dropped(pending) == pending

schedule_delayed_work(pending) == TRUE

\* __aerator_notify(): schedule_delayed_work(&aerator_work, HZ / 10); the
\* free path then drops zone->lock
dw_notify_schedule(z) ==
  /\ aerator_work.nt[z] = "sched"
  /\ aerator_work' =
       [aerator_work EXCEPT
          !.scheduled = schedule_delayed_work(@),
          !.lock[z] = FALSE, !.nt[z] = "idle"]
  /\ DwUnchanged

\* the delay has passed and the workqueue runs aerator_cycle(): atomic_inc()
\* and the first zone
dw_aerator_cycle_start ==
  /\ aerator_work.scheduled
  /\ aerator_work.w.pc = "idle"
  /\ aerator_work' = [aerator_work EXCEPT
                        !.scheduled = FALSE,
                        !.refcnt = @ + 1,
                        !.left = {},
                        !.w = [pc |-> "scrub", zone |-> 0, refcnt |-> 0]]
  /\ DwUnchanged

\* aerator_scrub_zone(): if (!test_bit(ZONE_AERATION_REQUESTED)) return
dw_aerator_scrub_zone_test ==
  /\ aerator_work.w.pc = "scrub"
  /\ aerator_work' =
       [aerator_work EXCEPT
          !.w.pc = IF aerator_work.w.zone \in aerator_work.requested
                   THEN "lock" ELSE "next"]
  /\ DwUnchanged

\* aerator_fill(zone): pages are pulled until the budget is used up, which
\* returns at once; else clear_bit(ZONE_AERATION_REQUESTED). The first pass
\* takes zone->lock, the later ones hold it.
dw_aerator_fill ==
  /\ aerator_work.w.pc \in {"lock", "refill"}
  /\ LET z == aerator_work.w.zone
         raw == aerator_work.raw[z]
         n == AMin(raw, ACapacity)
     IN  /\ aerator_work.w.pc = "lock" => ~aerator_work.lock[z]
         /\ aerator_work' =
              [aerator_work EXCEPT
                 !.lock[z] = TRUE,
                 !.raw[z] = raw - n,
                 !.batch = @ + n,
                 !.requested = IF n = ACapacity THEN @ ELSE @ \ {z},
                 !.w.pc = IF n = ACapacity THEN "filled" ELSE "fdec"]
  /\ DwUnchanged

\* aerator_fill(): atomic_dec(&a_dev_info->refcnt)
dw_aerator_fill_dec ==
  /\ aerator_work.w.pc = "fdec"
  /\ aerator_work' = [aerator_work EXCEPT !.refcnt = @ - 1,
                                          !.w.pc = "filled"]
  /\ DwUnchanged

\* aerator_scrub_zone(): break on an empty batch (clear_bit of
\* ZONE_AERATION_ACTIVE, unlock); else unlock and react()
dw_aerator_scrub_zone_react ==
  /\ aerator_work.w.pc = "filled"
  /\ LET z == aerator_work.w.zone
     IN  aerator_work' =
           IF aerator_work.batch = 0
           THEN [aerator_work EXCEPT !.active = @ \ {z}, !.lock[z] = FALSE,
                                     !.w.pc = "next"]
           ELSE [aerator_work EXCEPT !.lock[z] = FALSE, !.w.pc = "drain"]
  /\ DwUnchanged

\* aerator_scrub_zone() after react(): spin_lock(),
\* aerator_populate_boundaries(), aerator_drain(), and the test of
\* ZONE_AERATION_REQUESTED that ends the do-while
dw_aerator_scrub_zone_drain ==
  /\ aerator_work.w.pc = "drain"
  /\ LET z == aerator_work.w.zone
     IN  /\ ~aerator_work.lock[z]
         /\ aerator_work' =
              IF z \in aerator_work.requested
              THEN [aerator_work EXCEPT !.active = @ \cup {z}, !.batch = 0,
                                        !.lock[z] = TRUE, !.w.pc = "refill"]
              ELSE [aerator_work EXCEPT !.active = @ \ {z}, !.batch = 0,
                                        !.w.pc = "next"]
  /\ DwUnchanged

\* aerator_cycle(): next_zone(); at the end of the list
\* refcnt = atomic_read(); if (refcnt != 1) continue
dw_aerator_cycle_next ==
  /\ aerator_work.w.pc = "next"
  /\ aerator_work' =
       IF aerator_work.w.zone + 1 < NAZones
       THEN [aerator_work EXCEPT !.w.zone = @ + 1, !.w.pc = "scrub"]
       ELSE [aerator_work EXCEPT
               !.w.zone = 0,
               !.w.refcnt = aerator_work.refcnt,
               !.w.pc = IF aerator_work.refcnt /= 1 THEN "scrub"
                        ELSE "cmpxchg"]
  /\ DwUnchanged

\* aerator_cycle(): if (atomic_try_cmpxchg(&refcnt, &refcnt, 0)) break
dw_aerator_cycle_cmpxchg ==
  /\ aerator_work.w.pc = "cmpxchg"
  /\ aerator_work' =
       IF aerator_work.refcnt = aerator_work.w.refcnt
       THEN [aerator_work EXCEPT !.refcnt = 0, !.w = IdleDwWorker,
                                 !.left = aerator_work.requested]
       ELSE [aerator_work EXCEPT !.w.refcnt = aerator_work.refcnt,
                                 !.w.pc = "scrub"]
  /\ DwUnchanged

NextDelayed ==
  \/ \E z \in AZones : dw_aerator_notify_free(z)
  \/ \E z \in AZones : dw_alloc(z)
  \/ \E z \in AZones : dw_notify_fetch_inc(z)
  \/ \E z \in AZones : dw_notify_schedule(z)
  \/ dw_aerator_cycle_start
  \/ dw_aerator_scrub_zone_test
  \/ dw_aerator_fill
  \/ dw_aerator_fill_dec
  \/ dw_aerator_scrub_zone_react
  \/ dw_aerator_scrub_zone_drain
  \/ dw_aerator_cycle_next
  \/ dw_aerator_cycle_cmpxchg

SpecDelayed == InitDelayed /\ [][NextDelayed]_vars

\* aerator_work is queued or aerator_cycle() is running
DwWorkerBusy == aerator_work.scheduled \/ aerator_work.w.pc /= "idle"

\* aerator_cycle() returns in this step
DwGoesIdle == aerator_work.w.pc /= "idle" /\ aerator_work'.w.pc = "idle"

\* aerator_work becomes queued in this step
DwSchedules == ~aerator_work.scheduled /\ aerator_work'.scheduled

\* the worker leaves only by refcnt 1 -> 0, and the work is queued only by
\* the __aerator_notify() that raised refcnt from 0
DwHandshake ==
  /\ [][DwGoesIdle =>
          (aerator_work.refcnt = 1 /\ aerator_work'.refcnt = 0)]_vars
  /\ [][DwSchedules =>
          \E z \in AZones : aerator_work.nt[z] = "sched"]_vars
  /\ [][\A z \in AZones :
          (aerator_work.nt[z] = "inc" /\ aerator_work'.nt[z] /= "inc") =>
            ((aerator_work.refcnt = 0) <=> (aerator_work'.nt[z] = "sched"))]_vars

\* C40: no request is lost: the worker goes idle only by changing refcnt
\* from 1 to 0 and __aerator_notify schedules the delayed work exactly when
\* it raises refcnt from 0; in every reachable state in which some zone has
\* ZONE_AERATION_REQUESTED set the worker is scheduled or running, and the
\* worker never goes idle while such a zone exists.
C40_NoRequestLost ==
  /\ DwHandshake
  /\ [](aerator_work.requested /= {} => DwWorkerBusy)
  /\ [][DwGoesIdle => aerator_work'.requested = {}]_vars

\* a __aerator_notify() call has set the bit of a zone and has not yet
\* passed its atomic_fetch_inc() or its schedule_delayed_work()
DwNotifyInProgress(z) == aerator_work.nt[z] \in {"inc", "sched"}

\* C40 (amended): the same with the calls in progress counted: when a zone
\* has ZONE_AERATION_REQUESTED set, the worker is scheduled or running or a
\* __aerator_notify() call that set such a bit is still on its way to
\* schedule_delayed_work(); when the worker goes idle, every zone with the
\* bit set has its __aerator_notify() call before atomic_fetch_inc(), which
\* will read 0; and refcnt is the number of zones whose request has been
\* counted plus one while aerator_cycle() holds its reference.
C40_NoRequestLostOnceNotified ==
  /\ DwHandshake
  /\ [](aerator_work.requested /= {} =>
          (DwWorkerBusy
           \/ \E z \in aerator_work.requested : DwNotifyInProgress(z)))
  /\ [](aerator_work.refcnt = 0 =>
          \A z \in aerator_work.requested : aerator_work.nt[z] = "inc")
  /\ [][DwGoesIdle =>
          \A z \in aerator_work'.requested : aerator_work.nt[z] = "inc"]_vars

\* the worker has gone idle by refcnt 1 -> 0 while the free path of a zone
\* was between set_bit() and atomic_fetch_inc(); that call then reads 0 and
\* is about to schedule the work
C40_Witness ==
  /\ aerator_work.w.pc = "idle"
  /\ ~aerator_work.scheduled
  /\ \E z \in aerator_work.requested :
       z \in aerator_work.left /\ aerator_work.nt[z] = "sched"

====
